---- MODULE Spec2Model ----
(***************************************************************************)
(* Model of jira_roadmap.roadmap.fetch_roadmap: the aggregation pipeline   *)
(* that turns raw initiative records into initiatives, epics, dependency   *)
(* edges and timeline bounds.  The tracker (JiraClient) and the clock      *)
(* (date.today) are the environment, and so is the configuration file;     *)
(* their answers are fixed in the initial state and read by the pipeline   *)
(* steps.                                                                  *)
(***************************************************************************)
EXTENDS Integers, Sequences, FiniteSets, TLC

VARIABLES
    pc,                     \* position inside fetch_roadmap
    link_types,             \* argument link_types (None or a list of names)
    config_file,            \* what config_exists() and load_config() find
    jira_primary,           \* tracker's answer to the initiative search
    jira_parent,            \* tracker's answer to the parent-field epic query
    jira_epics,             \* tracker's answer to the bulk epic query
    jira_stories,           \* tracker's answer to the child-item query
    jira_projects,          \* tracker's answer to client.project(key), per key
    clock,                  \* the date date.today() returns
    calls,                  \* the JiraClient methods called so far, in order
    raw_initiatives,        \* local raw_initiatives
    initiative_epic_links,  \* local initiative_epic_links (key -> list of epic keys)
    epic_keys_set,          \* local epic_keys_set
    initiative_deps,        \* local initiative_deps
    parent_child_epics,     \* local parent_child_epics
    epic_data,              \* local epic_data (insertion-ordered dict)
    epic_deps,              \* local epic_deps
    story_counts,           \* local story_counts (epic key -> counters)
    initiatives,            \* local initiatives (list of RoadmapInitiative)
    all_dates,              \* local all_dates
    today,                  \* local today
    timeline_start,         \* local timeline_start
    timeline_end,           \* local timeline_end
    project_names,          \* local project_names (project key -> name)
    result,                 \* the returned RoadmapResult, <<>> while there is none
    error                   \* name of the exception fetch_roadmap raised, "" if none

vars == <<pc, link_types, config_file, jira_primary, jira_parent, jira_epics,
          jira_stories, jira_projects, clock, calls, raw_initiatives,
          initiative_epic_links, epic_keys_set, initiative_deps,
          parent_child_epics, epic_data, epic_deps, story_counts, initiatives,
          all_dates, today, timeline_start, timeline_end, project_names,
          result, error>>

(***************************************************************************)
(* Bounds of the model.                                                    *)
(***************************************************************************)
\* number of link / subtask / parent-result entries a tracker answer holds
MaxFeatures == 2
\* number of epic records whose date fields vary in the date scenarios
MaxDatedEpics == 2

(***************************************************************************)
(* Values.                                                                 *)
(***************************************************************************)
\* Python None for a date, and an absent optional value in general
NoDate == <<>>

\* issue keys "<project>-<num>"; the empty string is EmptyKey
Key(p, n) == [project |-> p, num |-> n]
EmptyKey == Key("", 0)
I1 == Key("INIT", 1)
I2 == Key("INIT", 2)
E1 == Key("EPIC", 1)
E2 == Key("EPIC", 2)
E3 == Key("EPIC", 3)

\* a date is <<year, month, day>>
Date(y, m, d) == <<y, m, d>>

DaysInMonth(y, m) ==
    IF m = 2
    THEN (IF (y % 4 = 0) /\ ((y % 100 # 0) \/ (y % 400 = 0)) THEN 29 ELSE 28)
    ELSE IF m \in {4, 6, 9, 11} THEN 30 ELSE 31

IsDate(y, m, d) ==
    /\ y >= 1 /\ y <= 9999
    /\ m >= 1 /\ m <= 12
    /\ d >= 1 /\ d <= DaysInMonth(y, m)

\* date.__lt__ / __le__
DateLT(a, b) ==
    \/ a[1] < b[1]
    \/ a[1] = b[1] /\ a[2] < b[2]
    \/ a[1] = b[1] /\ a[2] = b[2] /\ a[3] < b[3]

DateLE(a, b) == a = b \/ DateLT(a, b)

\* min(list) / max(list) of a non-empty list of dates
RECURSIVE MinDate(_)
MinDate(ds) ==
    IF Len(ds) = 1 THEN ds[1]
    ELSE LET r == MinDate(Tail(ds)) IN IF DateLT(r, ds[1]) THEN r ELSE ds[1]

RECURSIVE MaxDate(_)
MaxDate(ds) ==
    IF Len(ds) = 1 THEN ds[1]
    ELSE LET r == MaxDate(Tail(ds)) IN IF DateLT(ds[1], r) THEN r ELSE ds[1]

\* d + timedelta(days=n), n may be negative: one day forward or back at a
\* time
RECURSIVE AddDays(_, _)
AddDays(d, n) ==
    IF n = 0 THEN d
    ELSE IF n > 0
    THEN AddDays(IF d[3] < DaysInMonth(d[1], d[2]) THEN Date(d[1], d[2], d[3] + 1)
                 ELSE IF d[2] < 12 THEN Date(d[1], d[2] + 1, 1)
                 ELSE Date(d[1] + 1, 1, 1),
                 n - 1)
    ELSE AddDays(IF d[3] > 1 THEN Date(d[1], d[2], d[3] - 1)
                 ELSE IF d[2] > 1
                 THEN Date(d[1], d[2] - 1, DaysInMonth(d[1], d[2] - 1))
                 ELSE Date(d[1] - 1, 12, 31),
                 n + 1)

\* d.replace(day=k), d.replace(month=m, day=k)
ReplaceDay(d, k) == Date(d[1], d[2], k)
ReplaceMonthDay(d, m, k) == Date(d[1], m, k)

(***************************************************************************)
(* Date strings.  A string is a sequence of one-character strings.         *)
(***************************************************************************)
DigitChars == <<"0", "1", "2", "3", "4", "5", "6", "7", "8", "9">>

DigitVal(c) == (CHOOSE i \in 1..10 : DigitChars[i] = c) - 1
DigitOf(n) == DigitChars[n + 1]

\* str(value)[:10]
Truncate10(s) == IF Len(s) <= 10 THEN s ELSE SubSeq(s, 1, 10)

\* d.isoformat(): "YYYY-MM-DD"
IsoFormat(d) ==
    << DigitOf(d[1] \div 1000), DigitOf((d[1] \div 100) % 10),
       DigitOf((d[1] \div 10) % 10), DigitOf(d[1] % 10), "-",
       DigitOf(d[2] \div 10), DigitOf(d[2] % 10), "-",
       DigitOf(d[3] \div 10), DigitOf(d[3] % 10) >>

\* the ValueError date.fromisoformat raises, as the value of a call
ValueErrorRaised == <<"ValueError">>

\* date.fromisoformat(s) for a string in the extended calendar form
\* YYYY-MM-DD or in no ISO 8601 form at all
FromIsoFormat(s) ==
    IF /\ Len(s) = 10
       /\ s[5] = "-" /\ s[8] = "-"
       /\ \A i \in {1, 2, 3, 4, 6, 7, 9, 10} : (\E j \in 1..10 : DigitChars[j] = s[i])
    THEN LET y == DigitVal(s[1]) * 1000 + DigitVal(s[2]) * 100
                  + DigitVal(s[3]) * 10 + DigitVal(s[4])
             m == DigitVal(s[6]) * 10 + DigitVal(s[7])
             d == DigitVal(s[9]) * 10 + DigitVal(s[10])
         IN IF IsDate(y, m, d) THEN Date(y, m, d) ELSE ValueErrorRaised
    ELSE ValueErrorRaised

\* a raw field value: JSON null / absent, or a string
NullValue == [null |-> TRUE, text |-> <<>>]
StrValue(s) == [null |-> FALSE, text |-> s]

\* _parse_date_field without the try / except of lines 36-40
ParseDateFieldUncaught(value) ==
    IF value.null \/ value.text = <<>> THEN NoDate
    ELSE FromIsoFormat(Truncate10(value.text))

\* _parse_date_field(fields, field_id), applied to fields.get(field_id)
ParseDateField(value) ==
    IF value.null \/ value.text = <<>> THEN NoDate
    ELSE LET parsed == FromIsoFormat(Truncate10(value.text))
         IN IF parsed = ValueErrorRaised THEN NoDate ELSE parsed

(***************************************************************************)
(* Status records and _get_status_category (lines 43-63).                  *)
(***************************************************************************)
UpperChars == <<"A", "B", "C", "D", "E", "F", "G", "H", "I", "J", "K", "L", "M",
                "N", "O", "P", "Q", "R", "S", "T", "U", "V", "W", "X", "Y", "Z">>
LowerChars == <<"a", "b", "c", "d", "e", "f", "g", "h", "i", "j", "k", "l", "m",
                "n", "o", "p", "q", "r", "s", "t", "u", "v", "w", "x", "y", "z">>

\* str.lower() on a string of ASCII characters
Lower(s) ==
    [i \in DOMAIN s |->
        IF \E j \in 1..26 : UpperChars[j] = s[i]
        THEN LowerChars[CHOOSE j \in 1..26 : UpperChars[j] = s[i]]
        ELSE s[i]]

\* sub in s
Contains(s, sub) ==
    \E i \in 0..(Len(s) - Len(sub)) : SubSeq(s, i + 1, i + Len(sub)) = sub

\* a dict entry that holds a string: the key is absent, its value is JSON
\* null, or its value is the string
AbsentEntry == [kind |-> "absent", text |-> <<>>]
NullEntry == [kind |-> "null", text |-> <<>>]
StrEntry(s) == [kind |-> "str", text |-> s]

\* d.get(k, "") for such an entry; None is NullEntry
GetOrEmpty(entry) == IF entry.kind = "absent" THEN StrEntry(<<>>) ELSE entry

\* the statusCategory entry of a status: absent, null, or a dict with the
\* entries key and name
AbsentCategory == [kind |-> "absent", key |-> AbsentEntry, name |-> AbsentEntry]
NullCategory == [kind |-> "null", key |-> AbsentEntry, name |-> AbsentEntry]
Category(k, n) == [kind |-> "dict", key |-> k, name |-> n]

\* a status dict: its entries name and statusCategory
Status(n, c) == [name |-> n, statusCategory |-> c]

\* fields.get("status", {}) of an issue without a status
EmptyStatus == Status(AbsentEntry, AbsentCategory)

\* string literals of _get_status_category
CancelStr == <<"c", "a", "n", "c", "e", "l">>
NewStr == <<"n", "e", "w">>
DoneStr == <<"d", "o", "n", "e">>
ProgressStr == <<"p", "r", "o", "g", "r", "e", "s", "s">>
IndeterminateStr == <<"i", "n", "d", "e", "t", "e", "r", "m", "i", "n", "a", "t", "e">>

\* the AttributeError a method call on None raises, as the value of a call
AttributeErrorRaised == "AttributeError"

\* lines 58-63: the fallback on the category name
CategoryFallback(category) ==
    IF category.name.kind = "null" THEN AttributeErrorRaised
    ELSE LET name == Lower(GetOrEmpty(category.name).text)
         IN IF Contains(name, DoneStr) THEN "done"
            ELSE IF Contains(name, ProgressStr) \/ Contains(name, IndeterminateStr)
                 THEN "indeterminate"
            ELSE "new"

\* lines 53-63 with the category key never consulted
CategoryOfStatusNoKey(status_field) ==
    IF status_field.statusCategory.kind = "null" THEN AttributeErrorRaised
    ELSE CategoryFallback(status_field.statusCategory)

\* lines 53-63: the category when the name does not say "cancel"
CategoryOfStatus(status_field) ==
    IF status_field.statusCategory.kind = "null" THEN AttributeErrorRaised
    ELSE LET category == status_field.statusCategory
         IN IF category.key.kind = "null" THEN AttributeErrorRaised
            ELSE LET key == Lower(GetOrEmpty(category.key).text)
                 IN IF key = NewStr THEN "new"
                    ELSE IF key = IndeterminateStr THEN "indeterminate"
                    ELSE IF key = DoneStr THEN "done"
                    ELSE CategoryFallback(category)

\* _get_status_category comparing the name without lower()
GetStatusCategoryCaseSensitive(status_field) ==
    IF status_field.name.kind = "null" THEN AttributeErrorRaised
    ELSE IF Contains(GetOrEmpty(status_field.name).text, CancelStr) THEN "cancelled"
    ELSE CategoryOfStatus(status_field)

\* _get_status_category(status_field): a category, or AttributeErrorRaised
GetStatusCategory(status_field) ==
    IF status_field.name.kind = "null" THEN AttributeErrorRaised
    ELSE IF Contains(Lower(GetOrEmpty(status_field.name).text), CancelStr)
         THEN "cancelled"
    ELSE CategoryOfStatus(status_field)

(***************************************************************************)
(* Raw issues as the tracker returns them.                                 *)
(***************************************************************************)
\* the stub of a linked issue or subtask: its key and fields.issuetype.name
Target(k, t) == [key |-> k, issuetype |-> t]

\* an issue link; a missing inwardIssue / outwardIssue is <<>>, a present
\* one is the one-element sequence of its stub
Link(t, inw, outw) == [type |-> t, inwardIssue |-> inw, outwardIssue |-> outw]

\* a raw issue dict: key, fields.issuelinks, fields.subtasks,
\* fields.parent.key, the two configured date fields, and fields.status
\* (absent unless set)
Issue(k, links, subs, par, s, e) ==
    [key |-> k, issuelinks |-> links, subtasks |-> subs, parent |-> par,
     start |-> s, end |-> e, status |-> EmptyStatus]

\* the same issue with fields.status set
WithStatus(issue, st) == [issue EXCEPT !.status = st]

\* the link_types argument: None, or a list of names
NoLinkTypes == [none |-> TRUE, names |-> <<>>]
LinkTypes(names) == [none |-> FALSE, names |-> names]

Range(s) == {s[i] : i \in DOMAIN s}

\* the exceptions search_roadmap_issues raises
SearchErrors == {"AuthenticationError", "RateLimitError",
                 "JiraClientConnectionError", "ValueError"}

\* what search_roadmap_issues does: it returns a list of issues, or raises
Answer(issues) == [error |-> "", issues |-> issues]
Failure(e) == [error |-> e, issues |-> <<>>]
Failed(answer) == answer.error # ""

(***************************************************************************)
(* Hierarchy resolution: fetch_roadmap lines 133-185.                      *)
(***************************************************************************)
\* lines 150-158 without the seen_init_deps test of line 156
InitDepsAfterLinkNoSeen(link, issue_key, keys, deps) ==
    IF link.outwardIssue # <<>>
    THEN LET other_key == link.outwardIssue[1].key
         IN IF other_key # EmptyKey /\ other_key \in keys /\ other_key # issue_key
            THEN Append(deps, <<issue_key, other_key>>)
            ELSE deps
    ELSE deps

\* lines 150-158 reading the inward target as well as the outward one
InitDepsAfterLinkBothWays(link, issue_key, keys, deps) ==
    LET targets == link.outwardIssue \o link.inwardIssue
        found == {t \in Range(targets) :
                    /\ t.key # EmptyKey /\ t.key \in keys /\ t.key # issue_key
                    /\ <<issue_key, t.key>> \notin Range(deps)}
    IN IF found = {} THEN deps
       ELSE Append(deps, <<issue_key, (CHOOSE t \in found : TRUE).key>>)

\* lines 150-158 placed after the allow-list test of line 161
InitDepsAfterLinkAllowed(link, issue_key, keys, deps) ==
    IF \/ link.outwardIssue = <<>>
       \/ (/\ ~link_types.none /\ link_types.names # <<>>
           /\ link.type \notin Range(link_types.names))
    THEN deps
    ELSE LET other_key == link.outwardIssue[1].key
             pair == <<issue_key, other_key>>
         IN IF /\ other_key # EmptyKey
               /\ other_key \in keys
               /\ other_key # issue_key
               /\ pair \notin Range(deps)
            THEN Append(deps, pair)
            ELSE deps

\* lines 150-158 for one link: the dependency list after the link
InitDepsAfterLink(link, issue_key, keys, deps) ==
    IF link.outwardIssue # <<>>
    THEN LET other_key == link.outwardIssue[1].key
             pair == <<issue_key, other_key>>
         IN IF /\ other_key # EmptyKey
               /\ other_key \in keys
               /\ other_key # issue_key
               /\ pair \notin Range(deps)
            THEN Append(deps, pair)
            ELSE deps
    ELSE deps

\* lines 145-158 over all links of one issue
RECURSIVE CollectInitiativeDeps(_, _, _, _)
CollectInitiativeDeps(links, issue_key, keys, deps) ==
    IF links = <<>> THEN deps
    ELSE CollectInitiativeDeps(Tail(links), issue_key, keys,
                               InitDepsAfterLink(Head(links), issue_key, keys, deps))

\* line 161 with the allow-list never consulted
LinkFilterIgnored(link, lt) == FALSE

\* line 161 with an empty allow-list taken as a list that allows nothing
LinkFilteredByEmptyList(link, lt) ==
    /\ ~lt.none
    /\ link.type \notin Range(lt.names)

\* line 161: the link is skipped for epic collection
LinkFiltered(link, lt) ==
    /\ ~lt.none /\ lt.names # <<>>
    /\ link.type \notin Range(lt.names)

\* lines 166-174 for one direction of a link
EpicOfDirection(linked_issue) ==
    IF linked_issue = <<>> THEN <<>>
    ELSE IF linked_issue[1].issuetype = "Epic" /\ linked_issue[1].key # EmptyKey
         THEN <<linked_issue[1].key>>
         ELSE <<>>

\* lines 165-174 for one link: the epic keys it appends, inward first
EpicsOfLink(link) ==
    EpicOfDirection(link.inwardIssue) \o EpicOfDirection(link.outwardIssue)

\* lines 145-174 over all links of one issue: linked_epics after the loop
RECURSIVE CollectLinkedEpics(_, _, _)
CollectLinkedEpics(links, lt, linked_epics) ==
    IF links = <<>> THEN linked_epics
    ELSE CollectLinkedEpics(
             Tail(links), lt,
             IF LinkFiltered(Head(links), lt) THEN linked_epics
             ELSE linked_epics \o EpicsOfLink(Head(links)))

\* lines 177-183 with the subtask channel dropped under an allow-list
RECURSIVE CollectSubtaskEpicsFiltered(_, _)
CollectSubtaskEpicsFiltered(subtasks, linked_epics) ==
    IF subtasks = <<>> \/ (~link_types.none /\ link_types.names # <<>>)
    THEN linked_epics
    ELSE LET subtask == Head(subtasks)
         IN CollectSubtaskEpicsFiltered(
                Tail(subtasks),
                IF /\ subtask.issuetype = "Epic"
                   /\ subtask.key # EmptyKey
                   /\ subtask.key \notin Range(linked_epics)
                THEN Append(linked_epics, subtask.key)
                ELSE linked_epics)

\* lines 177-183: linked_epics after the subtask loop
RECURSIVE CollectSubtaskEpics(_, _)
CollectSubtaskEpics(subtasks, linked_epics) ==
    IF subtasks = <<>> THEN linked_epics
    ELSE LET subtask == Head(subtasks)
         IN CollectSubtaskEpics(
                Tail(subtasks),
                IF /\ subtask.issuetype = "Epic"
                   /\ subtask.key # EmptyKey
                   /\ subtask.key \notin Range(linked_epics)
                THEN Append(linked_epics, subtask.key)
                ELSE linked_epics)

\* lines 140-185 for one issue: its linked_epics
LinkedEpicsOfIssue(issue, lt) ==
    CollectSubtaskEpics(issue.subtasks,
                        CollectLinkedEpics(issue.issuelinks, lt, <<>>))

\* line 135
InitiativeKeys(raw) == {raw[i].key : i \in DOMAIN raw}

\* lines 139-185 with an epic kept only for the first initiative that finds it
RECURSIVE ResolveHierarchyFirstWins(_, _, _, _)
ResolveHierarchyFirstWins(raw, lt, i, acc) ==
    IF i > Len(raw) THEN acc
    ELSE LET issue == raw[i]
             linked == SelectSeq(LinkedEpicsOfIssue(issue, lt),
                                 LAMBDA k : k \notin acc.keys)
         IN ResolveHierarchyFirstWins(raw, lt, i + 1,
                [links |-> (issue.key :> linked) @@ acc.links,
                 keys  |-> acc.keys \cup Range(linked),
                 deps  |-> CollectInitiativeDeps(issue.issuelinks, issue.key,
                                                 InitiativeKeys(raw), acc.deps)])

\* lines 139-185: the loop over raw_initiatives, from issue i on
RECURSIVE ResolveHierarchy(_, _, _, _)
ResolveHierarchy(raw, lt, i, acc) ==
    IF i > Len(raw) THEN acc
    ELSE LET issue == raw[i]
             linked == LinkedEpicsOfIssue(issue, lt)
         IN ResolveHierarchy(raw, lt, i + 1,
                [links |-> (issue.key :> linked) @@ acc.links,
                 keys  |-> acc.keys \cup Range(linked),
                 deps  |-> CollectInitiativeDeps(issue.issuelinks, issue.key,
                                                 InitiativeKeys(raw), acc.deps)])

(***************************************************************************)
(* Parent-field epics: fetch_roadmap lines 196-204.                        *)
(***************************************************************************)
RECURSIVE MergeParentEpics(_, _)
MergeParentEpics(children, acc) ==
    IF children = <<>> THEN acc
    ELSE LET child == Head(children)
             parent_key == child.parent
         IN MergeParentEpics(
                Tail(children),
                IF parent_key \notin DOMAIN acc.links THEN acc
                ELSE IF child.key \in Range(acc.links[parent_key]) THEN acc
                ELSE [links |-> (parent_key :> Append(acc.links[parent_key], child.key))
                                @@ acc.links,
                      keys  |-> acc.keys \cup {child.key}])

(***************************************************************************)
(* Epic enrichment: fetch_roadmap lines 207-231.                           *)
(***************************************************************************)
\* a dict in insertion order: the keys in order, and the value of each
EmptyDict == [order |-> <<>>, val |-> <<>>]

\* lines 216-217: epic_data[key] = epic keeps the place of a key already
\* there and replaces its value
RECURSIVE IndexEpics(_, _)
IndexEpics(raw_epics, d) ==
    IF raw_epics = <<>> THEN d
    ELSE LET k == Head(raw_epics).key
         IN IndexEpics(Tail(raw_epics),
                       [order |-> IF k \in Range(d.order) THEN d.order
                                  ELSE Append(d.order, k),
                        val   |-> (k :> Head(raw_epics)) @@ d.val])

\* lines 224-231 for one link of one epic
EpicDepsAfterLink(link, epic_key, keys, deps) ==
    IF link.outwardIssue # <<>>
    THEN LET other_key == link.outwardIssue[1].key
             pair == <<epic_key, other_key>>
         IN IF /\ other_key # EmptyKey
               /\ other_key \in keys
               /\ other_key # epic_key
               /\ pair \notin Range(deps)
            THEN Append(deps, pair)
            ELSE deps
    ELSE deps

\* line 223 over the links of one epic
RECURSIVE CollectEpicDepsOfEpic(_, _, _, _)
CollectEpicDepsOfEpic(links, epic_key, keys, deps) ==
    IF links = <<>> THEN deps
    ELSE CollectEpicDepsOfEpic(Tail(links), epic_key, keys,
                               EpicDepsAfterLink(Head(links), epic_key, keys, deps))

\* lines 220-231: the loop over epic_data.items(), from entry i on
RECURSIVE CollectEpicDeps(_, _, _, _)
CollectEpicDeps(d, keys, i, deps) ==
    IF i > Len(d.order) THEN deps
    ELSE CollectEpicDeps(d, keys, i + 1,
             CollectEpicDepsOfEpic(d.val[d.order[i]].issuelinks, d.order[i], keys, deps))

(***************************************************************************)
(* Child progress: fetch_roadmap lines 235-257.                            *)
(***************************************************************************)

\* lines 250-257 with a final else that counts the item as in progress
CountsAfterStoryElse(counts, cat) ==
    LET c == [counts EXCEPT !.total = @ + 1]
    IN IF cat = "done" THEN [c EXCEPT !.done = @ + 1]
       ELSE IF cat = "cancelled" THEN [c EXCEPT !.cancelled = @ + 1]
       ELSE [c EXCEPT !.inprogress = @ + 1]

\* lines 250-257: the counters after one child item of category cat
CountsAfterStory(counts, cat) ==
    LET c == [counts EXCEPT !.total = @ + 1]
    IN IF cat = "done" THEN [c EXCEPT !.done = @ + 1]
       ELSE IF cat = "cancelled" THEN [c EXCEPT !.cancelled = @ + 1]
       ELSE IF cat = "indeterminate" THEN [c EXCEPT !.inprogress = @ + 1]
       ELSE c

\* line 248: story_counts.setdefault(parent_key, {...}), the counters of
\* an epic being zero before its first child item
CountsOf(counts, k) ==
    IF k \in DOMAIN counts THEN counts[k]
    ELSE [done |-> 0, cancelled |-> 0, inprogress |-> 0, total |-> 0]

\* lines 243-257: the loop over raw_stories; raised names the exception that
\* ended it, "" if none did
RECURSIVE CountStories(_, _, _)
CountStories(raw_stories, keys, acc) ==
    IF raw_stories = <<>> \/ acc.raised # "" THEN acc
    ELSE LET story == Head(raw_stories)
             parent_key == story.parent
         IN CountStories(
                Tail(raw_stories), keys,
                IF parent_key = EmptyKey \/ parent_key \notin keys THEN acc
                ELSE LET cat == GetStatusCategory(story.status)
                     IN IF cat = AttributeErrorRaised
                        THEN [acc EXCEPT !.raised = "AttributeError"]
                        ELSE [acc EXCEPT !.counts =
                                 (parent_key :> CountsAfterStory(CountsOf(acc.counts, parent_key), cat))
                                 @@ acc.counts])

(***************************************************************************)
(* Building initiatives: fetch_roadmap lines 260-331.                      *)
(***************************************************************************)
\* lines 274-297: the RoadmapEpic built from a fetched record and the
\* counters of its child items
RoadmapEpic(epic_key, epic_raw, counts) ==
    [key                |-> epic_key,
     status_category    |-> GetStatusCategory(epic_raw.status),
     start_date         |-> ParseDateField(epic_raw.start),
     end_date           |-> ParseDateField(epic_raw.end),
     done_stories       |-> counts.done,
     cancelled_stories  |-> counts.cancelled,
     inprogress_stories |-> counts.inprogress,
     total_stories      |-> counts.total]

\* lines 270-298 with the epics taken in the order of the fetched records
BuildEpicsFetchedOrder(keys, d, counts) ==
    LET fetched == SelectSeq(d.order, LAMBDA k : k \in Range(keys))
    IN [j \in DOMAIN fetched |->
           RoadmapEpic(fetched[j], d.val[fetched[j]], CountsOf(counts, fetched[j]))]

\* lines 270-298: the epics of one initiative, in the order of its epic keys
RECURSIVE BuildEpics(_, _, _)
BuildEpics(keys, d, counts) ==
    IF keys = <<>> THEN <<>>
    ELSE IF Head(keys) \notin DOMAIN d.val THEN BuildEpics(Tail(keys), d, counts)
    ELSE <<RoadmapEpic(Head(keys), d.val[Head(keys)], CountsOf(counts, Head(keys)))>>
         \o BuildEpics(Tail(keys), d, counts)

\* lines 300-303: the dates the epics of one initiative add to all_dates
RECURSIVE EpicDates(_)
EpicDates(epics) ==
    IF epics = <<>> THEN <<>>
    ELSE (IF Head(epics).start_date # NoDate THEN <<Head(epics).start_date>> ELSE <<>>)
         \o (IF Head(epics).end_date # NoDate THEN <<Head(epics).end_date>> ELSE <<>>)
         \o EpicDates(Tail(epics))

\* line 309 and line 310
RECURSIVE EpicStarts(_)
EpicStarts(epics) ==
    IF epics = <<>> THEN <<>>
    ELSE (IF Head(epics).start_date # NoDate THEN <<Head(epics).start_date>> ELSE <<>>)
         \o EpicStarts(Tail(epics))

RECURSIVE EpicEnds(_)
EpicEnds(epics) ==
    IF epics = <<>> THEN <<>>
    ELSE (IF Head(epics).end_date # NoDate THEN <<Head(epics).end_date>> ELSE <<>>)
         \o EpicEnds(Tail(epics))

\* lines 311 and 313 with the minimum taken over the epics that have a start
InitStartOfScheduled(epics) ==
    IF EpicStarts(epics) # <<>> THEN MinDate(EpicStarts(epics)) ELSE NoDate

\* lines 311 and 313
InitStart(epics) ==
    IF epics # <<>> /\ \A i \in DOMAIN epics : epics[i].start_date # NoDate
    THEN MinDate(EpicStarts(epics))
    ELSE NoDate

\* lines 312 and 314 without the test that there is an epic: no epic lacks
\* an end date, and the current date stands for the maximum of no date
InitEndVacuous(epics) ==
    IF \A i \in DOMAIN epics : epics[i].end_date # NoDate
    THEN (IF epics = <<>> THEN clock ELSE MaxDate(EpicEnds(epics)))
    ELSE NoDate

\* lines 312 and 314
InitEnd(epics) ==
    IF epics # <<>> /\ \A i \in DOMAIN epics : epics[i].end_date # NoDate
    THEN MaxDate(EpicEnds(epics))
    ELSE NoDate

\* lines 321-330: the RoadmapInitiative of one raw issue
RoadmapInitiative(issue_key, status_field, epics) ==
    [key             |-> issue_key,
     status_category |-> GetStatusCategory(status_field),
     start_date      |-> InitStart(epics),
     end_date        |-> InitEnd(epics),
     epics           |-> epics]

\* lines 316-319: the dates one initiative adds to all_dates
InitiativeDates(init) ==
    (IF init.start_date # NoDate THEN <<init.start_date>> ELSE <<>>)
    \o (IF init.end_date # NoDate THEN <<init.end_date>> ELSE <<>>)

\* line 270: initiative_epic_links.get(issue_key, [])
EpicLinksOf(links, issue_key) ==
    IF issue_key \in DOMAIN links THEN links[issue_key] ELSE <<>>

\* the exception that building one epic raises, "" if none: the date fields
\* are parsed at lines 276-277, the status is categorized at line 289
EpicError(epic) ==
    IF epic.start_date = ValueErrorRaised \/ epic.end_date = ValueErrorRaised
    THEN "ValueError"
    ELSE IF epic.status_category = AttributeErrorRaised THEN "AttributeError"
    ELSE ""

\* the first exception in a list of outcomes
RECURSIVE FirstError(_)
FirstError(errors) ==
    IF errors = <<>> THEN ""
    ELSE IF Head(errors) # "" THEN Head(errors)
    ELSE FirstError(Tail(errors))

\* lines 263-331: the exception that ends the loop over raw_initiatives, ""
\* if it runs to its end
BuildError(raw, links, d, counts) ==
    FirstError([i \in DOMAIN raw |->
        LET epics == BuildEpics(EpicLinksOf(links, raw[i].key), d, counts)
            first == FirstError([j \in DOMAIN epics |-> EpicError(epics[j])])
        IN IF first # "" THEN first
           ELSE IF GetStatusCategory(raw[i].status) = AttributeErrorRaised
                THEN "AttributeError"
           ELSE ""])

\* lines 263-331: the loop over raw_initiatives, from issue i on
RECURSIVE BuildInitiatives(_, _, _, _, _, _)
BuildInitiatives(raw, links, d, counts, i, acc) ==
    IF i > Len(raw) THEN acc
    ELSE LET epics == BuildEpics(EpicLinksOf(links, raw[i].key), d, counts)
             init  == RoadmapInitiative(raw[i].key, raw[i].status, epics)
         IN BuildInitiatives(raw, links, d, counts, i + 1,
                [initiatives |-> Append(acc.initiatives, init),
                 all_dates   |-> acc.all_dates \o EpicDates(epics)
                                 \o InitiativeDates(init)])

(***************************************************************************)
(* Timeline bounds: fetch_roadmap lines 334-351.                           *)
(***************************************************************************)
\* lines 344-345
NineMonthsOut(t) ==
    LET future_month == t[2] + 9
    IN Date(t[1] + (future_month - 1) \div 12, ((future_month - 1) % 12) + 1, 1)

\* lines 335-341 with the current date as the default start
RawTimelineStartToday(dates, t) ==
    IF dates # <<>> THEN MinDate(dates) ELSE t

\* lines 335-341
RawTimelineStart(dates, t) ==
    IF dates # <<>> THEN MinDate(dates) ELSE ReplaceMonthDay(t, 1, 1)

RawTimelineEnd(dates, t) ==
    IF dates # <<>> THEN MaxDate(dates) ELSE ReplaceMonthDay(t, 12, 31)

\* lines 346-347 without the extension
ExtendEndNever(e, t) == e

\* lines 346-347
ExtendEnd(e, t) == IF DateLT(e, NineMonthsOut(t)) THEN NineMonthsOut(t) ELSE e

\* line 350 without the step back by one day
PadStartSameMonth(s) == ReplaceDay(s, 1)

\* line 350
PadStart(s) == ReplaceDay(AddDays(ReplaceDay(s, 1), -1), 1)

\* line 351 with two days added instead of five
PadEndTwoDays(e) == ReplaceDay(AddDays(ReplaceDay(e, 28), 2), 1)

\* line 351
PadEnd(e) == ReplaceDay(AddDays(ReplaceDay(e, 28), 5), 1)

\* a date outside date.min .. date.max
DateOutOfRange(d) == d[1] < 1 \/ d[1] > 9999

\* lines 350-351: the exception the date arithmetic raises, "" if none:
\* subtracting a day from the first of January of year 1, or adding five
\* days to the 28th of December 9999, raises OverflowError
TimelineError(dates, t) ==
    IF \/ DateOutOfRange(AddDays(ReplaceDay(RawTimelineStart(dates, t), 1), -1))
       \/ DateOutOfRange(AddDays(ReplaceDay(ExtendEnd(RawTimelineEnd(dates, t), t), 28), 5))
    THEN "OverflowError"
    ELSE ""

\* lines 334-351
TimelineStart(dates, t) == PadStart(RawTimelineStart(dates, t))
TimelineEnd(dates, t) == PadEnd(ExtendEnd(RawTimelineEnd(dates, t), t))

(***************************************************************************)
(* Project names: fetch_roadmap lines 353-359 and get_project_names.       *)
(***************************************************************************)
\* key.split("-")[0] for a key "<project>-<num>"; the project part of a key
\* holds no "-"
ProjectKeyOf(k) == k.project

\* lines 354-358: all_project_keys
AllProjectKeys(inits) ==
    {ProjectKeyOf(inits[i].key) : i \in DOMAIN inits}
    \cup UNION {{ProjectKeyOf(inits[i].epics[j].key) : j \in DOMAIN inits[i].epics}
                : i \in DOMAIN inits}

\* what client.project(key) does: it returns a project with a name, or raises
Project(n) == [error |-> "", name |-> n]
ProjectFailure(e) == [error |-> e, name |-> ""]

\* client.project(key) for a key of the tracker, and for one it does not know
ProjectOf(projects, key) ==
    IF key \in DOMAIN projects THEN projects[key] ELSE ProjectFailure("JIRAError")

\* jira_client.py lines 123-128 with the exception of a lookup passed on:
\* the name of the key, or the exception
ProjectNameUncaught(projects, key) ==
    IF ProjectOf(projects, key).error # "" THEN ProjectOf(projects, key).error
    ELSE ProjectOf(projects, key).name

\* jira_client.py lines 123-128: the name stored for one key
ProjectName(projects, key) ==
    IF ProjectOf(projects, key).error # "" THEN key
    ELSE ProjectOf(projects, key).name

\* jira_client.py lines 121-129: get_project_names(sorted(all_project_keys))
GetProjectNames(projects, keys) == [key \in keys |-> ProjectName(projects, key)]

(***************************************************************************)
(* Configuration: config.py, and fetch_roadmap lines 86-108.               *)
(***************************************************************************)
\* the configuration file: whether it exists, the exception load_config
\* raises ("" if it returns a Config), and the two date field ids of the
\* Config it returns
ConfigFile(ex, err, s, e) ==
    [exists |-> ex, load_error |-> err, start_date_field |-> s, end_date_field |-> e]

\* line 98 with the end date field not looked at
FieldsMissingStartOnly(cfg) ==
    cfg.start_date_field.null \/ cfg.start_date_field.text = <<>>

\* line 98: not config.start_date_field or not config.end_date_field
FieldsMissing(cfg) ==
    \/ cfg.start_date_field.null \/ cfg.start_date_field.text = <<>>
    \/ cfg.end_date_field.null \/ cfg.end_date_field.text = <<>>

\* lines 87-102: the error the configuration makes fetch_roadmap raise, ""
\* if none
ConfigError(cfg) ==
    IF ~cfg.exists THEN "ConfigNotFoundError"
    ELSE IF cfg.load_error = "ValueError" THEN "InvalidConfigError"
    ELSE IF FieldsMissing(cfg) THEN "RoadmapConfigError"
    ELSE ""

(***************************************************************************)
(* The result type: models.py lines 38-46, and the call at lines 361-370.  *)
(***************************************************************************)
\* the fields of the RoadmapResult dataclass
RoadmapResultFields ==
    {"initiatives", "jql_query", "timeline_start", "timeline_end", "jira_url"}

\* the keyword arguments of the RoadmapResult(...) call
ResultArguments ==
    {"initiatives", "jql_query", "timeline_start", "timeline_end", "jira_url",
     "initiative_deps", "epic_deps", "project_names"}

\* lines 113-125 with the tracker client's exception passed on as it is
PrimaryErrorUnwrapped(e) == e

\* lines 113-125: the error fetch_roadmap raises for a failed primary search
PrimaryError(e) ==
    CASE e = "AuthenticationError"       -> "JiraAuthError"
      [] e = "RateLimitError"            -> "JiraRateLimitError"
      [] e = "JiraClientConnectionError" -> "JiraConnectionError"
      [] e = "ValueError"                -> "InvalidJqlError"

(***************************************************************************)
(* The steps of fetch_roadmap.                                             *)
(***************************************************************************)
\* a failed query issued a second time
CalledAgain(log, method) == Append(Append(log, method), method)

\* one call of a JiraClient method (lines 112, 192, 211, 239, 359): the
\* methods called so far
Called(log, method) == Append(log, method)

\* the arguments of the call, the tracker and the clock
environment == <<link_types, config_file, jira_primary, jira_parent, jira_epics,
                 jira_stories, jira_projects, clock>>

\* lines 86-108: the configuration is checked, then the client is made
LoadConfig ==
    /\ pc = "load_config"
    /\ IF ConfigError(config_file) # ""
       THEN /\ pc' = "raised"
            /\ error' = ConfigError(config_file)
       ELSE /\ pc' = "search_initiatives"
            /\ UNCHANGED error
    /\ UNCHANGED <<environment, calls, raw_initiatives, initiative_epic_links,
                   epic_keys_set, initiative_deps, parent_child_epics, epic_data,
                   epic_deps, story_counts, initiatives, all_dates, today,
                   timeline_start, timeline_end, project_names, result>>

\* lines 110-185: the primary search and the hierarchy loop
SearchInitiatives ==
    /\ pc = "search_initiatives"
    /\ calls' = Called(calls, "search_initiatives")
    /\ IF Failed(jira_primary)
       THEN /\ pc' = "raised"
            /\ error' = PrimaryError(jira_primary.error)
            /\ UNCHANGED <<raw_initiatives, initiative_epic_links,
                           epic_keys_set, initiative_deps>>
       ELSE IF jira_primary.issues = <<>>
       THEN /\ pc' = "raised"
            /\ error' = "NoIssuesFoundError"
            /\ UNCHANGED <<raw_initiatives, initiative_epic_links,
                           epic_keys_set, initiative_deps>>
       ELSE LET h == ResolveHierarchy(jira_primary.issues, link_types, 1,
                                                [links |-> <<>>, keys |-> {}, deps |-> <<>>])
            IN /\ raw_initiatives' = jira_primary.issues
               /\ initiative_epic_links' = h.links
               /\ epic_keys_set' = h.keys
               /\ initiative_deps' = h.deps
               /\ pc' = "search_parent_epics"
               /\ UNCHANGED error
    /\ UNCHANGED <<environment, parent_child_epics, epic_data, epic_deps,
                   story_counts, initiatives, all_dates, today, timeline_start,
                   timeline_end, project_names, result>>

\* lines 187-204: the parent-field query and its merge
SearchParentEpics ==
    /\ pc = "search_parent_epics"
    /\ calls' = Called(calls, "search_parent_epics")
    /\ LET answer == IF Failed(jira_parent) THEN <<>> ELSE jira_parent.issues
           m == MergeParentEpics(answer,
                    [links |-> initiative_epic_links, keys |-> epic_keys_set])
       IN /\ parent_child_epics' = answer
          /\ initiative_epic_links' = m.links
          /\ epic_keys_set' = m.keys
    /\ pc' = "search_epics"
    /\ UNCHANGED <<environment, raw_initiatives, initiative_deps, epic_data,
                   epic_deps, story_counts, initiatives, all_dates, today,
                   timeline_start, timeline_end, project_names, result, error>>

\* lines 206-231: the bulk epic query, issued if an epic key was found, and
\* the epic dependency edges
SearchEpics ==
    /\ pc = "search_epics"
    /\ calls' = IF epic_keys_set # {} THEN Called(calls, "search_epics") ELSE calls
    /\ LET raw_epics == IF epic_keys_set = {} \/ Failed(jira_epics)
                        THEN <<>> ELSE jira_epics.issues
           d == IndexEpics(raw_epics, EmptyDict)
       IN /\ epic_data' = d
          /\ epic_deps' = CollectEpicDeps(d, epic_keys_set, 1, <<>>)
    /\ pc' = "search_stories"
    /\ UNCHANGED <<environment, raw_initiatives, initiative_epic_links,
                   epic_keys_set, initiative_deps, parent_child_epics,
                   story_counts, initiatives, all_dates, today, timeline_start,
                   timeline_end, project_names, result, error>>

\* lines 233-257: the child-item query, issued if an epic key was found, and
\* the counters per epic
SearchStories ==
    /\ pc = "search_stories"
    /\ calls' = IF epic_keys_set # {} THEN Called(calls, "search_stories") ELSE calls
    /\ LET raw_stories == IF epic_keys_set = {} \/ Failed(jira_stories)
                          THEN <<>> ELSE jira_stories.issues
           c == CountStories(raw_stories, epic_keys_set,
                             [counts |-> <<>>, raised |-> ""])
       IN IF c.raised # ""
          THEN /\ pc' = "raised"
               /\ error' = c.raised
               /\ UNCHANGED story_counts
          ELSE /\ story_counts' = c.counts
               /\ pc' = "build"
               /\ UNCHANGED error
    /\ UNCHANGED <<environment, raw_initiatives, initiative_epic_links,
                   epic_keys_set, initiative_deps, parent_child_epics, epic_data,
                   epic_deps, initiatives, all_dates, today, timeline_start,
                   timeline_end, project_names, result>>

\* lines 259-331: the initiatives and the pool of dates
Build ==
    /\ pc = "build"
    /\ LET raised == BuildError(raw_initiatives, initiative_epic_links, epic_data,
                                story_counts)
       IN IF raised # ""
          THEN /\ pc' = "raised"
               /\ error' = raised
               /\ UNCHANGED <<initiatives, all_dates>>
          ELSE LET b == BuildInitiatives(raw_initiatives, initiative_epic_links,
                                         epic_data, story_counts, 1,
                                         [initiatives |-> <<>>, all_dates |-> <<>>])
               IN /\ initiatives' = b.initiatives
                  /\ all_dates' = b.all_dates
                  /\ pc' = "timeline"
                  /\ UNCHANGED error
    /\ UNCHANGED <<environment, calls, raw_initiatives, initiative_epic_links,
                   epic_keys_set, initiative_deps, parent_child_epics, epic_data,
                   epic_deps, story_counts, today, timeline_start, timeline_end,
                   project_names, result>>

\* lines 333-351: the timeline bounds
ComputeTimeline ==
    /\ pc = "timeline"
    /\ today' = clock
    /\ IF TimelineError(all_dates, clock) # ""
       THEN /\ pc' = "raised"
            /\ error' = TimelineError(all_dates, clock)
            /\ UNCHANGED <<timeline_start, timeline_end>>
       ELSE /\ timeline_start' = TimelineStart(all_dates, clock)
            /\ timeline_end' = TimelineEnd(all_dates, clock)
            /\ pc' = "project_names"
            /\ UNCHANGED error
    /\ UNCHANGED <<environment, calls, raw_initiatives, initiative_epic_links,
                   epic_keys_set, initiative_deps, parent_child_epics, epic_data,
                   epic_deps, story_counts, initiatives, all_dates,
                   project_names, result>>

\* lines 353-359: the project keys of the initiatives and epics, and their
\* names
ResolveProjectNames ==
    /\ pc = "project_names"
    /\ calls' = Called(calls, "get_project_names")
    /\ project_names' = GetProjectNames(jira_projects, AllProjectKeys(initiatives))
    /\ pc' = "return"
    /\ UNCHANGED <<environment, raw_initiatives, initiative_epic_links,
                   epic_keys_set, initiative_deps, parent_child_epics, epic_data,
                   epic_deps, story_counts, initiatives, all_dates, today,
                   timeline_start, timeline_end, result, error>>

\* lines 361-370: RoadmapResult(...) with the computed values; the dataclass
\* constructor raises TypeError for a keyword that is not one of its fields
ReturnResult ==
    /\ pc = "return"
    /\ IF ResultArguments \subseteq RoadmapResultFields
       THEN /\ result' = <<[initiatives     |-> initiatives,
                            timeline_start  |-> timeline_start,
                            timeline_end    |-> timeline_end,
                            initiative_deps |-> initiative_deps,
                            epic_deps       |-> epic_deps,
                            project_names   |-> project_names]>>
            /\ pc' = "done"
            /\ UNCHANGED error
       ELSE /\ error' = "TypeError"
            /\ pc' = "raised"
            /\ UNCHANGED result
    /\ UNCHANGED <<environment, calls, raw_initiatives, initiative_epic_links,
                   epic_keys_set, initiative_deps, parent_child_epics, epic_data,
                   epic_deps, story_counts, initiatives, all_dates, today,
                   timeline_start, timeline_end, project_names>>

Next ==
    \/ LoadConfig
    \/ SearchInitiatives
    \/ SearchParentEpics
    \/ SearchEpics
    \/ SearchStories
    \/ Build
    \/ ComputeTimeline
    \/ ResolveProjectNames
    \/ ReturnResult

(***************************************************************************)
(* Initial states: the arguments of the call, the tracker's answers and    *)
(* the clock.  The locals of fetch_roadmap are not yet assigned.           *)
(***************************************************************************)
LocalsUnassigned ==
    /\ pc = "load_config"
    /\ calls = <<>>
    /\ project_names = <<>>
    /\ raw_initiatives = <<>>
    /\ initiative_epic_links = <<>>
    /\ epic_keys_set = {}
    /\ initiative_deps = <<>>
    /\ parent_child_epics = <<>>
    /\ epic_data = EmptyDict
    /\ epic_deps = <<>>
    /\ story_counts = <<>>
    /\ initiatives = <<>>
    /\ all_dates = <<>>
    /\ today = NoDate
    /\ timeline_start = NoDate
    /\ timeline_end = NoDate
    /\ result = <<>>
    /\ error = ""

\* a configuration file that loads and names both date fields, and a
\* tracker that knows the project of the initiatives but not that of the
\* epics
StartFieldId == <<"c", "f", "_", "1">>
EndFieldId == <<"c", "f", "_", "2">>
ValidConfig == ConfigFile(TRUE, "", StrValue(StartFieldId), StrValue(EndFieldId))
KnownProjects == [p \in {"INIT"} |-> Project("Initiatives")]

Configured ==
    /\ config_file = ValidConfig
    /\ jira_projects = KnownProjects

\* a string literal as a sequence of characters
NotADate == <<"n", "o", "t", "-", "a", "-", "d", "a", "t", "e">>

DateValue(d) == StrValue(IsoFormat(d))
TimestampValue(d) ==
    StrValue(IsoFormat(d) \o <<"T", "0", "8", ":", "3", "0", ":", "0", "0", ".",
                               "0", "0", "0", "+", "0", "0", "0", "0">>)

\* an initiative record and an epic record of the tracker
InitiativeIssue(k, links, subs) == Issue(k, links, subs, EmptyKey, NullValue, NullValue)
EpicIssue(k, links, s, e) == Issue(k, links, <<>>, EmptyKey, s, e)
ChildEpic(k, par) == Issue(k, <<>>, <<>>, par, NullValue, NullValue)

Outward(t, k, ty) == Link(t, <<>>, <<Target(k, ty)>>)
Inward(t, k, ty) == Link(t, <<Target(k, ty)>>, <<>>)

\* status names and category names of the tracker
CancelledName == <<"C", "a", "n", "c", "e", "l", "l", "e", "d">>
CanceledUpperName == <<"C", "A", "N", "C", "E", "L", "E", "D">>
DoneName == <<"D", "o", "n", "e">>
InProgressName == <<"I", "n", " ", "P", "r", "o", "g", "r", "e", "s", "s">>
ToDoName == <<"T", "o", " ", "D", "o">>
UnknownName == <<"U", "n", "k", "n", "o", "w", "n">>

\* statuses as the tracker files them; a cancelled status has the category
\* of a done one
DoneStatus == Status(StrEntry(DoneName), Category(StrEntry(DoneStr), StrEntry(DoneName)))
CancelledStatus ==
    Status(StrEntry(CancelledName), Category(StrEntry(DoneStr), StrEntry(DoneName)))
InProgressStatus ==
    Status(StrEntry(InProgressName),
           Category(StrEntry(IndeterminateStr), StrEntry(InProgressName)))
ToDoStatus == Status(StrEntry(ToDoName), Category(StrEntry(NewStr), StrEntry(ToDoName)))
NullNameStatus == Status(NullEntry, Category(StrEntry(DoneStr), StrEntry(DoneName)))

\* a child item of an epic: its key, fields.parent.key and fields.status
Story(par, st) ==
    WithStatus(Issue(Key("STORY", 1), <<>>, <<>>, par, NullValue, NullValue), st)

\* ---- link scenarios ----------------------------------------------------
\* links that lead to epics: by either direction, by both, and by a type
\* other than "Relates"; links that lead to initiatives, and to an
\* initiative typed as an epic
ScenarioLinks ==
    {Outward("Relates", E1, "Epic"), Inward("Relates", E1, "Epic"),
     Link("Relates", <<Target(E1, "Epic")>>, <<Target(E1, "Epic")>>),
     Link("Relates", <<Target(E1, "Epic")>>, <<Target(E2, "Epic")>>),
     Outward("Blocks", E1, "Epic"), Outward("Blocks", E2, "Epic"),
     Outward("Blocks", I1, "Initiative"), Outward("Blocks", I2, "Initiative"),
     Inward("Blocks", I1, "Initiative"), Outward("Blocks", I2, "Epic")}

ScenarioSubtasks == {Target(E1, "Epic"), Target(E2, "Epic"), Target(E1, "Story")}

ScenarioChildren == {ChildEpic(E1, I1), ChildEpic(E2, I2), ChildEpic(E3, EmptyKey)}

ScenarioLinkTypes == {NoLinkTypes, LinkTypes(<<>>), LinkTypes(<<"Relates">>)}

\* answers of the bulk epic query: a failure, every record, one record only
ScenarioEpicAnswers ==
    {Failure("RateLimitError"),
     Answer(<<EpicIssue(E1, <<Outward("Blocks", E2, "Epic"), Outward("Relates", E2, "Epic"),
                       Outward("Blocks", E1, "Epic"), Outward("Blocks", E3, "Epic")>>,
                 DateValue(Date(2024, 1, 15)), DateValue(Date(2024, 3, 31))),
       EpicIssue(E2, <<Inward("Blocks", E1, "Epic")>>,
                 TimestampValue(Date(2024, 2, 29)), NullValue),
       EpicIssue(I2, <<>>, NullValue, NullValue)>>),
     Answer(<<EpicIssue(E2, <<Outward("Blocks", E1, "Epic")>>,
                 DateValue(Date(2024, 2, 29)), NullValue)>>)}

\* two initiatives whose links, subtasks and parent-field children number
\* MaxFeatures at most in total
InitLinks ==
    \E n1 \in 0..MaxFeatures :
    \E n2 \in 0..(MaxFeatures - n1) :
    \E m1 \in 0..(MaxFeatures - n1 - n2) :
    \E m2 \in 0..(MaxFeatures - n1 - n2 - m1) :
    \E np \in 0..(MaxFeatures - n1 - n2 - m1 - m2) :
    \E l1 \in [1..n1 -> ScenarioLinks], l2 \in [1..n2 -> ScenarioLinks],
       s1 \in [1..m1 -> ScenarioSubtasks], s2 \in [1..m2 -> ScenarioSubtasks],
       p \in [1..np -> ScenarioChildren] :
        /\ jira_primary = Answer(<<InitiativeIssue(I1, l1, s1),
                                    InitiativeIssue(I2, l2, s2)>>)
        /\ jira_parent = Answer(p)
        /\ jira_epics \in ScenarioEpicAnswers
        /\ jira_stories = Answer(<<Story(E1, DoneStatus), Story(E2, EmptyStatus)>>)
        /\ link_types \in ScenarioLinkTypes
        /\ clock = Date(2024, 5, 20)
        /\ Configured /\ LocalsUnassigned

\* a primary search that fails or finds nothing
InitNoInitiatives ==
    /\ jira_primary \in {Failure(e) : e \in SearchErrors} \cup {Answer(<<>>)}
    /\ jira_parent = Answer(<<>>)
    /\ jira_epics = Answer(<<>>)
    /\ jira_stories = Answer(<<>>)
    /\ link_types = NoLinkTypes
    /\ clock = Date(2024, 5, 20)
    /\ Configured /\ LocalsUnassigned

Init == InitLinks \/ InitNoInitiatives

Spec == Init /\ [][Next]_vars

\* ---- date scenarios ----------------------------------------------------
EpicKey(n) == Key("EPIC", n)

\* date field values of an epic: null, a non-date, dates and a timestamp
ScenarioDateValues ==
    {NullValue, StrValue(NotADate), DateValue(Date(2024, 3, 10)),
     TimestampValue(Date(2024, 1, 31)), DateValue(Date(2024, 11, 5))}

\* one initiative linked to n epics whose date fields vary, one without epics
InitEpicDates ==
    \E n \in 0..MaxDatedEpics :
    \E s \in [1..n -> ScenarioDateValues], e \in [1..n -> ScenarioDateValues] :
        /\ jira_primary =
              Answer(<<InitiativeIssue(I1, [i \in 1..n |->
                                             Outward("Relates", EpicKey(i), "Epic")],
                                       <<>>),
                       InitiativeIssue(I2, <<>>, <<>>)>>)
        /\ jira_parent = Answer(<<>>)
        /\ jira_epics = Answer([i \in 1..n |-> EpicIssue(EpicKey(i), <<>>, s[i], e[i])])
        /\ jira_stories = Answer(<<>>)
        /\ link_types = NoLinkTypes
        /\ clock \in {Date(2024, 5, 20), Date(2023, 12, 31)}
        /\ Configured /\ LocalsUnassigned

\* the years the calendar scenarios cover
YearSpan == 2

\* first, middle and last days of every month
CalendarDays ==
    UNION {{Date(y, m, d) : d \in {1, 15, 28, DaysInMonth(y, m)}}
           : y \in 2023..(2023 + YearSpan - 1), m \in 1..12}

\* one initiative with one epic; the epic's start date and the clock range
\* over the calendar
InitCalendar ==
    \E s \in {NullValue} \cup {DateValue(d) : d \in CalendarDays},
       e \in {NullValue, DateValue(Date(2023 + YearSpan + 1, 12, 31))} :
        /\ jira_primary =
              Answer(<<InitiativeIssue(I1, <<Outward("Relates", E1, "Epic")>>, <<>>)>>)
        /\ jira_parent = Answer(<<>>)
        /\ jira_epics = Answer(<<EpicIssue(E1, <<>>, s, e)>>)
        /\ jira_stories = Answer(<<>>)
        /\ link_types = NoLinkTypes
        /\ clock \in CalendarDays
        /\ Configured /\ LocalsUnassigned

\* strings that are not the ISO form of a calendar date: days and months
\* the calendar lacks, a field too short, other separators
ScenarioNonDates ==
    {NotADate,
     <<"2", "0", "2", "4", "-", "0", "2", "-", "3", "0">>,
     <<"2", "0", "2", "3", "-", "0", "2", "-", "2", "9">>,
     <<"2", "0", "2", "4", "-", "1", "3", "-", "0", "1">>,
     <<"2", "0", "2", "4", "-", "0", "1", "-", "1">>,
     <<"2", "0", "2", "4", "/", "0", "1", "/", "1", "5">>}

\* one initiative with one epic whose start field is a date string, a
\* timestamp string, an empty string or a string that is no date
InitDateValues ==
    \E s \in {DateValue(d) : d \in CalendarDays}
             \cup {TimestampValue(d) : d \in CalendarDays}
             \cup {StrValue(t) : t \in ScenarioNonDates \cup {<<>>}},
       e \in {NullValue, StrValue(<<>>)} \cup {StrValue(t) : t \in ScenarioNonDates} :
        /\ jira_primary =
              Answer(<<InitiativeIssue(I1, <<Outward("Relates", E1, "Epic")>>, <<>>)>>)
        /\ jira_parent = Answer(<<>>)
        /\ jira_epics = Answer(<<EpicIssue(E1, <<>>, s, e)>>)
        /\ jira_stories = Answer(<<>>)
        /\ link_types = NoLinkTypes
        /\ clock = Date(2024, 5, 20)
        /\ Configured /\ LocalsUnassigned

\* one initiative with one epic whose dates lie in the first months and the
\* last months date can represent
InitDateLimits ==
    \E s \in {DateValue(Date(1, 1, 1)), DateValue(Date(1, 1, 31)),
              DateValue(Date(1, 2, 1)), DateValue(Date(2024, 1, 1))},
       e \in {NullValue, DateValue(Date(9999, 11, 30)), DateValue(Date(9999, 12, 1)),
              DateValue(Date(9999, 12, 31))} :
        /\ jira_primary =
              Answer(<<InitiativeIssue(I1, <<Outward("Relates", E1, "Epic")>>, <<>>)>>)
        /\ jira_parent = Answer(<<>>)
        /\ jira_epics = Answer(<<EpicIssue(E1, <<>>, s, e)>>)
        /\ jira_stories = Answer(<<>>)
        /\ link_types = NoLinkTypes
        /\ clock = Date(2024, 5, 20)
        /\ Configured /\ LocalsUnassigned

InitDates == InitEpicDates \/ InitCalendar \/ InitDateValues \/ InitDateLimits

SpecDates == InitDates /\ [][Next]_vars

\* ---- auxiliary query, child item and status scenarios --------------------
\* number of child items the child-item query returns
MaxStories == 3

\* the records of three epics; the first has an outward link to the second
ScenarioEpicRecords ==
    <<EpicIssue(E1, <<Outward("Blocks", E2, "Epic")>>,
                DateValue(Date(2024, 1, 15)), DateValue(Date(2024, 3, 31))),
      EpicIssue(E2, <<>>, DateValue(Date(2024, 2, 1)), NullValue),
      EpicIssue(E3, <<>>, NullValue, NullValue)>>

\* an answer, or one of the four failures of search_roadmap_issues
AnswerOrFailure(issues) == {Answer(issues)} \cup {Failure(e) : e \in SearchErrors}

\* two initiatives with a linked epic, a subtask epic and a parent-field
\* epic; each auxiliary query answers or fails
InitAuxFailures ==
    /\ jira_primary =
          Answer(<<InitiativeIssue(I1, <<Outward("Relates", E1, "Epic")>>,
                                   <<Target(E2, "Epic")>>),
                   InitiativeIssue(I2, <<>>, <<>>)>>)
    /\ jira_parent \in AnswerOrFailure(<<ChildEpic(E3, I2)>>)
    /\ jira_epics \in AnswerOrFailure(ScenarioEpicRecords)
    /\ jira_stories \in AnswerOrFailure(<<Story(E1, DoneStatus), Story(E1, ToDoStatus),
                                          Story(E3, InProgressStatus)>>)
    /\ link_types = NoLinkTypes
    /\ clock = Date(2024, 5, 20)
    /\ Configured /\ LocalsUnassigned

\* child items: of a discovered epic in every category, of a second
\* discovered epic, of an epic that was not discovered, and without a parent
ScenarioStories ==
    {Story(E1, st) : st \in {DoneStatus, CancelledStatus, InProgressStatus,
                             ToDoStatus, EmptyStatus, NullNameStatus}}
    \cup {Story(E2, DoneStatus), Story(E2, ToDoStatus),
          Story(E3, DoneStatus), Story(EmptyKey, DoneStatus)}

\* one initiative with two epics and up to MaxStories child items
InitStoryCounts ==
    \E n \in 0..MaxStories :
    \E stories \in [1..n -> ScenarioStories] :
        /\ jira_primary =
              Answer(<<InitiativeIssue(I1, <<Outward("Relates", E1, "Epic"),
                                             Outward("Relates", E2, "Epic")>>, <<>>)>>)
        /\ jira_parent = Answer(<<>>)
        /\ jira_epics = Answer(ScenarioEpicRecords)
        /\ jira_stories = Answer(stories)
        /\ link_types = NoLinkTypes
        /\ clock = Date(2024, 5, 20)
        /\ Configured /\ LocalsUnassigned

\* status records: every combination of an absent, null or given name with
\* an absent, null or given category whose key and name are absent, null
\* or given
ScenarioStatusNames ==
    {AbsentEntry, NullEntry, StrEntry(<<>>), StrEntry(CancelledName),
     StrEntry(CanceledUpperName), StrEntry(DoneName)}

ScenarioCategoryKeys ==
    {AbsentEntry, NullEntry, StrEntry(DoneStr), StrEntry(NewStr),
     StrEntry(IndeterminateStr), StrEntry(<<"D", "O", "N", "E">>), StrEntry(Lower(UnknownName))}

ScenarioCategoryNames ==
    {AbsentEntry, NullEntry, StrEntry(DoneName), StrEntry(InProgressName),
     StrEntry(ToDoName), StrEntry(<<"I", "n", "d", "e", "t", "e", "r", "m", "i", "n", "a", "t", "e">>), StrEntry(UnknownName)}

ScenarioStatuses ==
    {Status(n, c) : n \in ScenarioStatusNames,
                    c \in {AbsentCategory, NullCategory}
                          \cup {Category(k, cn) : k \in ScenarioCategoryKeys,
                                                  cn \in ScenarioCategoryNames}}

\* one initiative with one epic; the status of the epic ranges over the
\* status records, the status of the initiative over a few of them
InitStatuses ==
    \E es \in ScenarioStatuses,
       is \in {EmptyStatus, InProgressStatus, CancelledStatus, NullNameStatus} :
        /\ jira_primary =
              Answer(<<WithStatus(InitiativeIssue(I1, <<Outward("Relates", E1, "Epic")>>,
                                                  <<>>), is)>>)
        /\ jira_parent = Answer(<<>>)
        /\ jira_epics = Answer(<<WithStatus(EpicIssue(E1, <<>>, NullValue, NullValue), es)>>)
        /\ jira_stories = Answer(<<Story(E1, CancelledStatus)>>)
        /\ link_types = NoLinkTypes
        /\ clock = Date(2024, 5, 20)
        /\ Configured /\ LocalsUnassigned

InitProgress == InitAuxFailures \/ InitStoryCounts \/ InitStatuses

SpecProgress == InitProgress /\ [][Next]_vars

\* ---- configuration, project and shared-key scenarios -----------------------
\* a file that is missing, one that load_config rejects, and files that
\* load with each date field id absent, empty or given
ScenarioFieldIds(id) == {NullValue, StrValue(<<>>), StrValue(id)}

ScenarioConfigs ==
    {ConfigFile(FALSE, "FileNotFoundError", NullValue, NullValue),
     ConfigFile(TRUE, "ValueError", NullValue, NullValue)}
    \cup {ConfigFile(TRUE, "", s, e) : s \in ScenarioFieldIds(StartFieldId),
                                       e \in ScenarioFieldIds(EndFieldId)}

\* one initiative with one epic, or a primary search that fails or finds
\* nothing, under each configuration file
InitConfigs ==
    /\ config_file \in ScenarioConfigs
    /\ jira_primary \in
          {Answer(<<InitiativeIssue(I1, <<Outward("Relates", E1, "Epic")>>, <<>>)>>),
           Answer(<<InitiativeIssue(I1, <<>>, <<>>)>>),
           Answer(<<>>), Failure("AuthenticationError")}
    /\ jira_parent = Answer(<<>>)
    /\ jira_epics = Answer(<<EpicIssue(E1, <<>>, NullValue, NullValue)>>)
    /\ jira_stories = Answer(<<>>)
    /\ jira_projects = KnownProjects
    /\ link_types = NoLinkTypes
    /\ clock = Date(2024, 5, 20)
    /\ LocalsUnassigned

\* an epic of a third project
O1 == Key("OPS", 7)

\* the projects of the tracker, each with a lookup that answers or fails
ScenarioProjects ==
    {[p \in {"INIT", "EPIC", "OPS"} |->
         IF p \in failing THEN ProjectFailure("JIRAError")
         ELSE Project(CASE p = "INIT" -> "Initiatives"
                        [] p = "EPIC" -> "Epics"
                        [] p = "OPS"  -> "Operations")]
     : failing \in SUBSET {"INIT", "EPIC", "OPS"}}

\* records of epics of three projects
ProjectEpicRecords ==
    <<EpicIssue(E1, <<>>, NullValue, NullValue),
      EpicIssue(O1, <<>>, NullValue, NullValue),
      EpicIssue(E2, <<>>, NullValue, NullValue),
      EpicIssue(I2, <<>>, NullValue, NullValue)>>

\* an initiative linked to up to MaxFeatures epics of three projects, and
\* one without epics; the bulk epic query returns every record, the first
\* two, or fails
InitProjects ==
    \E n \in 0..MaxFeatures :
    \E k \in [1..n -> {E1, E2, O1, I2}] :
        /\ config_file = ValidConfig
        /\ jira_primary =
              Answer(<<InitiativeIssue(I1, [i \in 1..n |-> Outward("Relates", k[i], "Epic")],
                                       <<>>),
                       InitiativeIssue(I2, <<>>, <<>>)>>)
        /\ jira_parent = Answer(<<>>)
        /\ jira_epics \in {Answer(ProjectEpicRecords),
                           Answer(SubSeq(ProjectEpicRecords, 1, 2)),
                           Failure("JiraClientConnectionError")}
        /\ jira_stories = Answer(<<>>)
        /\ jira_projects \in ScenarioProjects
        /\ link_types = NoLinkTypes
        /\ clock = Date(2024, 5, 20)
        /\ LocalsUnassigned

\* the issues of a primary result that link to each other as epics: the
\* first has an outward link to the second, the second the mirror inward
\* link, and each names the other's type as typeA / typeB
SharedIssues(typeA, typeB) ==
    <<InitiativeIssue(I1, <<Outward("Blocks", I2, typeB)>>, <<>>),
      InitiativeIssue(I2, <<Inward("Blocks", I1, typeA)>>, <<>>)>>

\* a primary result whose issues are discovered as epics of each other; the
\* bulk epic query returns the records of the keys it is asked for
InitSharedKeys ==
    \E typeA \in {"Epic", "Initiative"}, typeB \in {"Epic", "Initiative"} :
        /\ config_file = ValidConfig
        /\ jira_primary = Answer(SharedIssues(typeA, typeB))
        /\ jira_parent = Answer(<<>>)
        /\ jira_epics =
              Answer(SelectSeq(SharedIssues(typeA, typeB),
                               LAMBDA issue : \/ issue.key = I1 /\ typeA = "Epic"
                                              \/ issue.key = I2 /\ typeB = "Epic"))
        /\ jira_stories = Answer(<<>>)
        /\ jira_projects = KnownProjects
        /\ link_types \in ScenarioLinkTypes
        /\ clock = Date(2024, 5, 20)
        /\ LocalsUnassigned

InitAssembly == InitConfigs \/ InitProjects \/ InitSharedKeys

SpecAssembly == InitAssembly /\ [][Next]_vars

\* the arguments of RoadmapResult(...) at line 361 are computed
ResultComputed == pc = "return"

(***************************************************************************)
(* Vocabulary of the properties, stated on the tracker's raw answers.      *)
(***************************************************************************)
EpicKeysOf(init) == [j \in DOMAIN init.epics |-> init.epics[j].key]

Count(seq, x) == Cardinality({j \in DOMAIN seq : seq[j] = x})

NoDuplicates(seq) == \A i, j \in DOMAIN seq : seq[i] = seq[j] => i = j

\* every key the scenarios mention
ScenarioKeys == {I1, I2, E1, E2, E3, EmptyKey}

\* the link names k as the key of an inward or outward target of type Epic
LinkNamesEpic(link, k) ==
    /\ k # EmptyKey
    /\ \/ link.inwardIssue # <<>> /\ link.inwardIssue[1] = Target(k, "Epic")
       \/ link.outwardIssue # <<>> /\ link.outwardIssue[1] = Target(k, "Epic")

\* the allow-list is a non-empty list that lacks the link's type name
OutsideAllowList(link, lt) ==
    ~lt.none /\ lt.names # <<>> /\ \A n \in DOMAIN lt.names : lt.names[n] # link.type

\* an allow-list was passed (empty or not) and lacks the link's type name
OutsideSuppliedList(link, lt) ==
    ~lt.none /\ \A n \in DOMAIN lt.names : lt.names[n] # link.type

ReachedByAllowedLink(issue, k, lt) ==
    \E j \in DOMAIN issue.issuelinks :
        LinkNamesEpic(issue.issuelinks[j], k) /\ ~OutsideAllowList(issue.issuelinks[j], lt)

ReachedByAnyLink(issue, k) ==
    \E j \in DOMAIN issue.issuelinks : LinkNamesEpic(issue.issuelinks[j], k)

ReachedBySubtask(issue, k) ==
    /\ k # EmptyKey
    /\ \E j \in DOMAIN issue.subtasks : issue.subtasks[j] = Target(k, "Epic")

ReachedByParentField(issue, k) ==
    /\ ~Failed(jira_parent)
    /\ \E j \in DOMAIN jira_parent.issues :
          jira_parent.issues[j].key = k /\ jira_parent.issues[j].parent = issue.key

Discovers(issue, k) ==
    \/ ReachedByAllowedLink(issue, k, link_types)
    \/ ReachedBySubtask(issue, k)
    \/ ReachedByParentField(issue, k)

\* the bulk epic query returned a record for k
Fetched(k) ==
    ~Failed(jira_epics) /\ \E j \in DOMAIN jira_epics.issues : jira_epics.issues[j].key = k

\* months counted from year 0, and the first day of such a month
MonthIndex(d) == d[1] * 12 + d[2] - 1
FirstOfMonth(i) == Date(i \div 12, (i % 12) + 1, 1)

Earliest(dates) == CHOOSE d \in Range(dates) : \A e \in Range(dates) : DateLE(d, e)
Latest(dates) == CHOOSE d \in Range(dates) : \A e \in Range(dates) : DateLE(e, d)

(***************************************************************************)
(* Properties.                                                             *)
(***************************************************************************)
\* C1: for every initiative handed to the result whose epic list is not
\* empty: if every epic has a start date the initiative's start date is the
\* minimum of the epic start dates, and if some epic has none it is None;
\* likewise for the end date with the maximum.
C1_InitiativeDatesFromEpics ==
    ResultComputed =>
        \A i \in DOMAIN initiatives :
            LET init == initiatives[i]
                eps == init.epics
            IN /\ (eps # <<>> /\ \A j \in DOMAIN eps : eps[j].start_date # NoDate)
                    => /\ \E j \in DOMAIN eps : init.start_date = eps[j].start_date
                       /\ \A j \in DOMAIN eps : DateLE(init.start_date, eps[j].start_date)
               /\ (\E j \in DOMAIN eps : eps[j].start_date = NoDate)
                    => init.start_date = NoDate
               /\ (eps # <<>> /\ \A j \in DOMAIN eps : eps[j].end_date # NoDate)
                    => /\ \E j \in DOMAIN eps : init.end_date = eps[j].end_date
                       /\ \A j \in DOMAIN eps : DateLE(eps[j].end_date, init.end_date)
               /\ (\E j \in DOMAIN eps : eps[j].end_date = NoDate)
                    => init.end_date = NoDate

\* C1 witness: an initiative with two epics whose start dates both exist, the
\* second being the earlier one and the initiative's start, while only the
\* first epic has an end date and the initiative's end is None.
C1_Witness ==
    /\ ResultComputed
    /\ \E i \in DOMAIN initiatives :
          LET init == initiatives[i]
              eps == init.epics
          IN /\ Len(eps) = 2
             /\ eps[1].start_date # NoDate /\ eps[2].start_date # NoDate
             /\ DateLT(eps[2].start_date, eps[1].start_date)
             /\ init.start_date = eps[2].start_date
             /\ eps[1].end_date # NoDate /\ eps[2].end_date = NoDate
             /\ init.end_date = NoDate

\* C2 as stated: every epic key is in the epic list of at most one
\* initiative.
C2_EpicUnderOneInitiative ==
    ResultComputed =>
        \A i, j \in DOMAIN initiatives :
            i # j => Range(EpicKeysOf(initiatives[i]))
                     \cap Range(EpicKeysOf(initiatives[j])) = {}

\* C2 amended: an epic key is in the epic list of exactly the initiatives
\* that discover it (by an allowed link, a subtask entry or a parent-field
\* result) when the bulk epic query returned its record; so a key that one
\* initiative at most discovers is under one initiative at most, and a key
\* two initiatives discover is under both.
C2_EpicUnderItsDiscoverers ==
    ResultComputed =>
        /\ Len(initiatives) = Len(raw_initiatives)
        /\ \A i \in DOMAIN initiatives : \A k \in ScenarioKeys :
              (k \in Range(EpicKeysOf(initiatives[i])))
                <=> (Discovers(raw_initiatives[i], k) /\ Fetched(k))

\* C2 witness: two initiatives both link to one epic, and it is in the epic
\* list of each.
C2_Witness ==
    /\ ResultComputed
    /\ Len(initiatives) = 2
    /\ ReachedByAllowedLink(raw_initiatives[1], E1, link_types)
    /\ ReachedByAllowedLink(raw_initiatives[2], E1, link_types)
    /\ E1 \in Range(EpicKeysOf(initiatives[1]))
    /\ E1 \in Range(EpicKeysOf(initiatives[2]))

\* C3 as stated: no initiative's epic list holds an epic key twice.
C3_EpicListUnique ==
    ResultComputed =>
        \A i \in DOMAIN initiatives : NoDuplicates(EpicKeysOf(initiatives[i]))

\* C4 as stated: an epic an initiative reaches both by an allowed issue link
\* and by its subtask list, and whose record was fetched, is exactly once in
\* that initiative's epic list, and only link-discovered epics precede it.
C4_LinkAndSubtaskOnce ==
    ResultComputed =>
        \A i \in DOMAIN initiatives : \A k \in ScenarioKeys :
            (/\ ReachedByAllowedLink(raw_initiatives[i], k, link_types)
             /\ ReachedBySubtask(raw_initiatives[i], k)
             /\ Fetched(k))
            => LET keys == EpicKeysOf(initiatives[i])
               IN /\ Count(keys, k) = 1
                  /\ \A p, q \in DOMAIN keys :
                        (keys[q] = k /\ p < q)
                        => ReachedByAllowedLink(raw_initiatives[i], keys[p], link_types)

\* C5: initiative_deps and epic_deps hold no pair twice and no pair of two
\* equal keys.
C5_DepsUniqueNoSelf ==
    ResultComputed =>
        /\ NoDuplicates(initiative_deps)
        /\ NoDuplicates(epic_deps)
        /\ \A i \in DOMAIN initiative_deps : initiative_deps[i][1] # initiative_deps[i][2]
        /\ \A i \in DOMAIN epic_deps : epic_deps[i][1] # epic_deps[i][2]

\* C5 witness: an initiative has an outward link to itself and no initiative
\* edge results, and a fetched epic with two outward links to another
\* discovered epic and one to itself yields that one edge once.
C5_Witness ==
    /\ ResultComputed
    /\ \E i \in DOMAIN raw_initiatives : \E j \in DOMAIN raw_initiatives[i].issuelinks :
          /\ raw_initiatives[i].issuelinks[j].outwardIssue # <<>>
          /\ raw_initiatives[i].issuelinks[j].outwardIssue[1].key = raw_initiatives[i].key
    /\ initiative_deps = <<>>
    /\ E1 \in DOMAIN epic_data.val
    /\ Cardinality({j \in DOMAIN epic_data.val[E1].issuelinks :
                      epic_data.val[E1].issuelinks[j].outwardIssue
                        = <<Target(E2, "Epic")>>}) = 2
    /\ \E j \in DOMAIN epic_data.val[E1].issuelinks :
          epic_data.val[E1].issuelinks[j].outwardIssue = <<Target(E1, "Epic")>>
    /\ epic_deps = << <<E1, E2>> >>

\* C6: the initiative edges are exactly the pairs (a, b) of two different
\* initiatives of the primary result where a has a link whose outward target
\* is b; an inward link yields no edge.
C6_InitiativeDepsOutwardOnly ==
    ResultComputed =>
        Range(initiative_deps) =
            {<<raw_initiatives[i].key, b>> :
                <<i, b>> \in {x \in (DOMAIN raw_initiatives) \X InitiativeKeys(raw_initiatives) :
                    /\ x[2] # raw_initiatives[x[1]].key
                    /\ \E j \in DOMAIN raw_initiatives[x[1]].issuelinks :
                          LET o == raw_initiatives[x[1]].issuelinks[j].outwardIssue
                          IN o # <<>> /\ o[1].key = x[2]}}

\* C6 witness: A has an outward link to B, B has the mirror inward link to
\* A, and the only edge is (A, B).
C6_Witness ==
    /\ ResultComputed
    /\ Len(raw_initiatives) = 2
    /\ raw_initiatives[1].issuelinks = <<Outward("Blocks", I2, "Initiative")>>
    /\ raw_initiatives[2].issuelinks = <<Inward("Blocks", I1, "Initiative")>>
    /\ initiative_deps = << <<I1, I2>> >>

\* the initiative reaches k by issue links only, all of them outside the
\* allow-list in the sense of `outside`
OnlyByLinksOutside(issue, k, outside(_, _)) ==
    /\ ReachedByAnyLink(issue, k)
    /\ \A j \in DOMAIN issue.issuelinks :
          LinkNamesEpic(issue.issuelinks[j], k) => outside(issue.issuelinks[j], link_types)
    /\ ~ReachedBySubtask(issue, k)
    /\ ~ReachedByParentField(issue, k)

\* C7 as stated: with an allow-list supplied, an epic an initiative reaches
\* only by links whose type is not in the list is absent from that
\* initiative's epic list and from the global epic key set, and an epic
\* reached by a link whose type is in the list is present.
C7_AllowListFilters ==
    (ResultComputed /\ ~link_types.none) =>
        \A i \in DOMAIN raw_initiatives : \A k \in ScenarioKeys :
            LET issue == raw_initiatives[i]
            IN /\ OnlyByLinksOutside(issue, k, OutsideSuppliedList)
                    => /\ k \notin Range(initiative_epic_links[issue.key])
                       /\ k \notin Range(EpicKeysOf(initiatives[i]))
                       /\ k \notin epic_keys_set
               /\ (\E j \in DOMAIN issue.issuelinks :
                       /\ LinkNamesEpic(issue.issuelinks[j], k)
                       /\ issue.issuelinks[j].type \in Range(link_types.names))
                    => /\ k \in Range(initiative_epic_links[issue.key])
                       /\ k \in epic_keys_set

\* C7 amended: with a non-empty allow-list supplied, an epic an initiative
\* reaches only by links whose type is not in the list is absent from that
\* initiative's epic list, and absent from the global epic key set unless
\* another initiative discovers it; an epic reached by a link whose type is
\* in the list is present in both.  An empty allow-list filters nothing.
C7_NonEmptyAllowListFilters ==
    (ResultComputed /\ ~link_types.none) =>
        \A i \in DOMAIN raw_initiatives : \A k \in ScenarioKeys :
            LET issue == raw_initiatives[i]
            IN /\ (link_types.names # <<>>
                   /\ OnlyByLinksOutside(issue, k, OutsideAllowList))
                    => /\ k \notin Range(initiative_epic_links[issue.key])
                       /\ k \notin Range(EpicKeysOf(initiatives[i]))
                       /\ (\A o \in DOMAIN raw_initiatives :
                              ~Discovers(raw_initiatives[o], k))
                            => k \notin epic_keys_set
               /\ (\E j \in DOMAIN issue.issuelinks :
                       /\ LinkNamesEpic(issue.issuelinks[j], k)
                       /\ issue.issuelinks[j].type \in Range(link_types.names))
                    => /\ k \in Range(initiative_epic_links[issue.key])
                       /\ k \in epic_keys_set
               /\ (link_types.names = <<>> /\ ReachedByAnyLink(issue, k))
                    => /\ k \in Range(initiative_epic_links[issue.key])
                       /\ k \in epic_keys_set

\* C7 witness: the allow-list is ["Relates"]; the first initiative links to
\* EPIC-1 by "Relates" and to EPIC-2 by "Blocks"; its epic list is EPIC-1
\* alone and EPIC-2 is not in the global key set, though its record came back.
C7_Witness ==
    /\ ResultComputed
    /\ link_types = LinkTypes(<<"Relates">>)
    /\ raw_initiatives[1].issuelinks =
          <<Outward("Relates", E1, "Epic"), Outward("Blocks", E2, "Epic")>>
    /\ Fetched(E1) /\ Fetched(E2)
    /\ EpicKeysOf(initiatives[1]) = <<E1>>
    /\ epic_keys_set = {E1}

\* C8: whatever the allow-list is, every subtask entry of type Epic of an
\* initiative and every parent-field result whose parent is that initiative
\* is in that initiative's epic key list and in the global epic key set, and
\* in its epic list when the bulk epic query returned its record.
C8_SubtasksAndParentUnfiltered ==
    ResultComputed =>
        \A i \in DOMAIN raw_initiatives : \A k \in ScenarioKeys :
            LET issue == raw_initiatives[i]
            IN (ReachedBySubtask(issue, k) \/ ReachedByParentField(issue, k))
                 => /\ k \in Range(initiative_epic_links[issue.key])
                    /\ k \in epic_keys_set
                    /\ Fetched(k) => k \in Range(EpicKeysOf(initiatives[i]))

\* C8 witness: the allow-list is ["Relates"], the first initiative has a
\* subtask epic that no allowed link reaches and a parent-field child, and
\* both are in its epic list.
C8_Witness ==
    /\ ResultComputed
    /\ link_types = LinkTypes(<<"Relates">>)
    /\ ReachedBySubtask(raw_initiatives[1], E2)
    /\ ReachedByParentField(raw_initiatives[1], E1)
    /\ ~ReachedByAllowedLink(raw_initiatives[1], E1, link_types)
    /\ ~ReachedByAllowedLink(raw_initiatives[1], E2, link_types)
    /\ initiative_epic_links[I1] = <<E2, E1>>
    /\ EpicKeysOf(initiatives[1]) = <<E2, E1>>

\* C9: timeline_end is no earlier than the day nine calendar months after
\* the current date (same day number, nine months on), and timeline_start
\* and timeline_end are both a first day of a month.
C9_TimelineEndNineMonths ==
    ResultComputed =>
        /\ timeline_start[3] = 1
        /\ timeline_end[3] = 1
        /\ LET i == MonthIndex(today) + 9
           IN DateLE(Date(i \div 12, (i % 12) + 1, today[3]), timeline_end)

\* C9 witness: today is the 31st, every pooled date lies before today, and
\* timeline_end is the first day of the tenth month after today's.
C9_Witness ==
    /\ ResultComputed
    /\ today[3] = 31
    /\ all_dates # <<>>
    /\ \A j \in DOMAIN all_dates : DateLT(all_dates[j], today)
    /\ timeline_end = FirstOfMonth(MonthIndex(today) + 10)

\* C10: with a non-empty pool, timeline_start is the first day of the month
\* before the month of the earliest pooled date, and timeline_end the first
\* day of the month after the month of the later of the latest pooled date
\* and the first day of the ninth month after the current month.
C10_TimelinePadding ==
    (ResultComputed /\ all_dates # <<>>) =>
        LET nine == FirstOfMonth(MonthIndex(today) + 9)
            last == IF DateLT(Latest(all_dates), nine) THEN nine ELSE Latest(all_dates)
        IN /\ timeline_start = FirstOfMonth(MonthIndex(Earliest(all_dates)) - 1)
           /\ timeline_end = FirstOfMonth(MonthIndex(last) + 1)

\* C10 witness: the earliest pooled date is in January and timeline_start is
\* December 1 of the year before; the latest is in December, past the nine
\* months, and timeline_end is January 1 of the year after.
C10_Witness ==
    /\ ResultComputed
    /\ all_dates # <<>>
    /\ Earliest(all_dates)[2] = 1
    /\ timeline_start = Date(Earliest(all_dates)[1] - 1, 12, 1)
    /\ Latest(all_dates)[2] = 12
    /\ DateLT(NineMonthsOut(today), Latest(all_dates))
    /\ timeline_end = Date(Latest(all_dates)[1] + 1, 1, 1)

\* every date an epic or an initiative handed to the result carries
CarriedDates ==
    UNION {{initiatives[i].start_date, initiatives[i].end_date}
           \cup UNION {{initiatives[i].epics[j].start_date,
                        initiatives[i].epics[j].end_date}
                       : j \in DOMAIN initiatives[i].epics}
           : i \in DOMAIN initiatives} \ {NoDate}

\* the bounds that result from the values lo and hi by the nine-month
\* extension and the padding of one month on each side
BoundsFrom(lo, hi) ==
    LET nine == FirstOfMonth(MonthIndex(today) + 9)
        last == IF DateLT(hi, nine) THEN nine ELSE hi
    IN <<FirstOfMonth(MonthIndex(lo) - 1), FirstOfMonth(MonthIndex(last) + 1)>>

\* C11: the pool of dates holds exactly the dates the epics and initiatives
\* of the result carry; when they carry none, the timeline bounds are those
\* that extension and padding make of January 1 and December 31 of the
\* current year, and otherwise those they make of the earliest and the
\* latest carried date.
C11_TimelineDefaults ==
    ResultComputed =>
        /\ Range(all_dates) = CarriedDates
        /\ CarriedDates = {}
             => <<timeline_start, timeline_end>>
                  = BoundsFrom(Date(today[1], 1, 1), Date(today[1], 12, 31))
        /\ CarriedDates # {}
             => <<timeline_start, timeline_end>>
                  = BoundsFrom(CHOOSE d \in CarriedDates :
                                   \A e \in CarriedDates : DateLE(d, e),
                               CHOOSE d \in CarriedDates :
                                   \A e \in CarriedDates : DateLE(e, d))

\* C11 witness: an epic is in the result, nothing carries a date, it is
\* February, and the bounds are December 1 of last year and January 1 of
\* next year.
C11_Witness ==
    /\ ResultComputed
    /\ \E i \in DOMAIN initiatives : initiatives[i].epics # <<>>
    /\ CarriedDates = {}
    /\ today[2] = 2
    /\ timeline_start = Date(today[1] - 1, 12, 1)
    /\ timeline_end = Date(today[1] + 1, 1, 1)

\* C12: when the primary search fails, fetch_roadmap stops there and raises
\* JiraAuthError for an authentication failure, JiraRateLimitError for a rate
\* limit, JiraConnectionError for a connectivity failure and InvalidJqlError
\* for a malformed query; when it returns no issue, fetch_roadmap raises
\* NoIssuesFoundError; no later step runs and no result is returned.
C12_PrimaryFailureNamed ==
    (Failed(jira_primary) \/ jira_primary.issues = <<>>) =>
        /\ pc \in {"load_config", "search_initiatives", "raised"}
        /\ result = <<>>
        /\ pc = "raised" =>
              /\ jira_primary.error = "AuthenticationError" => error = "JiraAuthError"
              /\ jira_primary.error = "RateLimitError" => error = "JiraRateLimitError"
              /\ jira_primary.error = "JiraClientConnectionError"
                    => error = "JiraConnectionError"
              /\ jira_primary.error = "ValueError" => error = "InvalidJqlError"
              /\ ~Failed(jira_primary) => error = "NoIssuesFoundError"

\* C12 witness: the primary search was rate limited and fetch_roadmap has
\* raised JiraRateLimitError with no local assigned.
C12_Witness ==
    /\ jira_primary = Failure("RateLimitError")
    /\ pc = "raised"
    /\ error = "JiraRateLimitError"
    /\ raw_initiatives = <<>>
    /\ result = <<>>

\* the primary search returned at least one issue
PrimaryFound == ~Failed(jira_primary) /\ jira_primary.issues # <<>>

\* C13 as stated: when the primary search returned issues and the
\* parent-field query, the bulk epic query or the child-item query failed,
\* fetch_roadmap does not raise; the failed query's result counts as empty,
\* and the result returned has one initiative per primary record.
C13_AuxFailuresNeverRaise ==
    (/\ PrimaryFound
     /\ Failed(jira_parent) \/ Failed(jira_epics) \/ Failed(jira_stories)) =>
        /\ pc # "raised"
        /\ Failed(jira_parent) => parent_child_epics = <<>>
        /\ Failed(jira_epics) => epic_data = EmptyDict
        /\ Failed(jira_stories) => story_counts = <<>>
        /\ pc = "done" =>
              /\ result # <<>>
              /\ Len(result[1].initiatives) = Len(jira_primary.issues)

\* C14 as stated: when the primary search returned issues and the bulk epic
\* query failed, fetch_roadmap does not raise, and in what it returns every
\* initiative has an empty epic list and no start and end date, and there
\* is no epic dependency edge.
C14_EpicFetchFailureDegrades ==
    (PrimaryFound /\ Failed(jira_epics)) =>
        /\ pc # "raised"
        /\ epic_deps = <<>>
        /\ \A i \in DOMAIN initiatives :
              /\ initiatives[i].epics = <<>>
              /\ initiatives[i].start_date = NoDate
              /\ initiatives[i].end_date = NoDate
        /\ pc = "done" =>
              /\ result # <<>>
              /\ result[1].epic_deps = <<>>
              /\ Len(result[1].initiatives) = Len(jira_primary.issues)

\* the child items the child-item query returned
ReturnedStories == IF Failed(jira_stories) THEN <<>> ELSE jira_stories.issues

\* the positions of the returned child items whose parent key is k, and of
\* those among them in category cat
ChildrenOf(k) == {j \in DOMAIN ReturnedStories : ReturnedStories[j].parent = k}
ChildrenIn(k, cat) ==
    {j \in ChildrenOf(k) : GetStatusCategory(ReturnedStories[j].status) = cat}

\* C15: for every epic handed to the result, total_stories is the number of
\* returned child items whose parent key is the epic's key, done_stories,
\* cancelled_stories and inprogress_stories are the numbers of those in
\* category done, cancelled and indeterminate, so their sum is at most the
\* total and equals it exactly when no child item of the epic is in
\* category new.
C15_ChildProgressRollup ==
    ResultComputed =>
        \A i \in DOMAIN initiatives : \A j \in DOMAIN initiatives[i].epics :
            LET epic == initiatives[i].epics[j]
                sum == epic.done_stories + epic.cancelled_stories
                       + epic.inprogress_stories
            IN /\ epic.total_stories = Cardinality(ChildrenOf(epic.key))
               /\ epic.done_stories = Cardinality(ChildrenIn(epic.key, "done"))
               /\ epic.cancelled_stories = Cardinality(ChildrenIn(epic.key, "cancelled"))
               /\ epic.inprogress_stories
                    = Cardinality(ChildrenIn(epic.key, "indeterminate"))
               /\ sum <= epic.total_stories
               /\ (sum = epic.total_stories) <=> (ChildrenIn(epic.key, "new") = {})

\* C15 witness: an epic has three child items, one done, one cancelled and
\* one new, and its counters are 1, 1, 0 of 3.
C15_Witness ==
    /\ ResultComputed
    /\ \E i \in DOMAIN initiatives : \E j \in DOMAIN initiatives[i].epics :
          LET epic == initiatives[i].epics[j]
          IN /\ Cardinality(ChildrenIn(epic.key, "new")) = 1
             /\ epic.total_stories = 3
             /\ epic.done_stories = 1
             /\ epic.cancelled_stories = 1
             /\ epic.inprogress_stories = 0

\* the status records _get_status_category was given for the initiatives and
\* epics that were built, each with the category it returned
Categorized ==
    {<<raw_initiatives[i].status, initiatives[i].status_category>>
       : i \in DOMAIN initiatives}
    \cup UNION {{<<epic_data.val[initiatives[i].epics[j].key].status,
                   initiatives[i].epics[j].status_category>>
                  : j \in DOMAIN initiatives[i].epics}
                : i \in DOMAIN initiatives}

\* every status record a run reads: of the counted child items, of the
\* epics to build and of the initiatives
StatusesRead ==
    {ReturnedStories[j].status
       : j \in {n \in DOMAIN ReturnedStories : ReturnedStories[n].parent \in epic_keys_set}}
    \cup {epic_data.val[k].status : k \in DOMAIN epic_data.val}
    \cup {raw_initiatives[i].status : i \in DOMAIN raw_initiatives}

\* character c is letter l (a lower-case letter) in either case
SameLetter(c, l) ==
    c = l \/ \E n \in 1..26 : LowerChars[n] = l /\ UpperChars[n] = c

\* the entry is a string that contains the word in any letter case
HasWord(entry, word) ==
    /\ entry.kind = "str"
    /\ \E i \in 0..(Len(entry.text) - Len(word)) :
          \A k \in 1..Len(word) : SameLetter(entry.text[i + k], word[k])

\* C16: every status record whose name contains "cancel" in any letter case
\* is categorized as cancelled, whatever its category entry is (absent,
\* null, or any key and name), and a run that reads only such records does
\* not fail in the categorizer.
C16_CancelNameWins ==
    /\ \A sc \in Categorized : HasWord(sc[1].name, CancelStr) => sc[2] = "cancelled"
    /\ (StatusesRead # {} /\ \A st \in StatusesRead : HasWord(st.name, CancelStr))
         => error # "AttributeError"

\* C16 witness: an epic whose status is named "CANCELED" and has a null
\* category, and an initiative whose status is named "Cancelled" and has
\* the category key "done", are both categorized as cancelled.
C16_Witness ==
    /\ <<Status(StrEntry(CanceledUpperName), NullCategory), "cancelled">> \in Categorized
    /\ <<CancelledStatus, "cancelled">> \in Categorized

\* the category a category key names
KeyCategory(text) ==
    IF text = DoneStr THEN "done" ELSE IF text = NewStr THEN "new" ELSE "indeterminate"

\* the category key of the status is exactly "done", "new" or "indeterminate"
HasExactKey(st) ==
    /\ st.statusCategory.kind = "dict"
    /\ st.statusCategory.key.kind = "str"
    /\ st.statusCategory.key.text \in {DoneStr, NewStr, IndeterminateStr}

\* C17 as stated: every status record whose category key is exactly "done",
\* "new" or "indeterminate" is categorized as that key.
C17_ExactKeyReturned ==
    \A sc \in Categorized :
        HasExactKey(sc[1]) => sc[2] = KeyCategory(sc[1].statusCategory.key.text)

\* C17 amended: a status record whose category key is exactly "done", "new"
\* or "indeterminate" is categorized as that key when its name is absent or
\* a string without "cancel" in any letter case, whatever the category name
\* is; when its name contains "cancel" it is categorized as cancelled.
C17_ExactKeyReturnedUnlessCancelled ==
    \A sc \in Categorized :
        HasExactKey(sc[1]) =>
            /\ (sc[1].name.kind # "null" /\ ~HasWord(sc[1].name, CancelStr))
                 => sc[2] = KeyCategory(sc[1].statusCategory.key.text)
            /\ HasWord(sc[1].name, CancelStr) => sc[2] = "cancelled"

\* C17 witness: a status with no name, category key "new" and the category
\* name "Done" is categorized as new, and a status named "Cancelled" with
\* category key "done" as cancelled.
C17_Witness ==
    /\ <<Status(AbsentEntry, Category(StrEntry(NewStr), StrEntry(DoneName))), "new">>
          \in Categorized
    /\ <<CancelledStatus, "cancelled">> \in Categorized
    /\ HasExactKey(CancelledStatus)

\* the entry is the word itself, in any letter case
IsWord(entry, word) ==
    /\ entry.kind = "str"
    /\ Len(entry.text) = Len(word)
    /\ \A k \in 1..Len(word) : SameLetter(entry.text[k], word[k])

\* the status has no category key the categorizer recognizes, and its name
\* does not say "cancel"
FallsBack(st) ==
    /\ ~HasWord(st.name, CancelStr)
    /\ \A w \in {DoneStr, NewStr, IndeterminateStr} : ~IsWord(st.statusCategory.key, w)

\* C18 as stated: the categorizer never fails, also on records whose name,
\* category, category key or category name is missing or null, and returns
\* new, indeterminate, done or cancelled; without a recognizable key, a
\* category name containing "done" gives done, one containing "progress" or
\* "indeterminate" and not "done" gives indeterminate, and any other gives
\* new.
C18_CategorizerTotal ==
    /\ error # "AttributeError"
    /\ \A sc \in Categorized :
          LET cname == sc[1].statusCategory.name
          IN /\ sc[2] \in {"new", "indeterminate", "done", "cancelled"}
             /\ FallsBack(sc[1]) =>
                   sc[2] = IF HasWord(cname, DoneStr) THEN "done"
                           ELSE IF HasWord(cname, ProgressStr)
                                   \/ HasWord(cname, IndeterminateStr)
                                THEN "indeterminate"
                           ELSE "new"

\* every date field _parse_date_field was given for a built epic, each with
\* the value it returned
ParsedFields ==
    UNION {UNION {{<<epic_data.val[initiatives[i].epics[j].key].start,
                     initiatives[i].epics[j].start_date>>,
                   <<epic_data.val[initiatives[i].epics[j].key].end,
                     initiatives[i].epics[j].end_date>>}
                  : j \in DOMAIN initiatives[i].epics}
           : i \in DOMAIN initiatives}

\* the calendar dates the scenarios write into date fields
KnownDates ==
    CalendarDays \cup {Date(2024, 3, 10), Date(2024, 1, 31), Date(2024, 11, 5),
                       Date(2023 + YearSpan + 1, 12, 31)}

\* their string forms YYYY-MM-DD
KnownIsoForms == {IsoFormat(d) : d \in KnownDates}

\* C19: _parse_date_field never raises; for an absent, null or empty field
\* and for a string whose first 10 characters are no calendar date it
\* returns None; for the string YYYY-MM-DD of a date D, and for a string
\* that starts with it, it returns D (a calendar date whose ISO form is
\* that string); and parsing the ISO form of a date it returned gives the
\* same date.
C19_ParseDateField ==
    /\ error # "ValueError"
    /\ ResultComputed => \A vr \in ParsedFields :
          LET value == vr[1]
              parsed == vr[2]
          IN /\ (value.null \/ value.text = <<>>) => parsed = NoDate
             /\ (~value.null /\ value.text \in ScenarioNonDates) => parsed = NoDate
             /\ (~value.null /\ Len(value.text) >= 10
                 /\ SubSeq(value.text, 1, 10) \in KnownIsoForms) =>
                   /\ parsed # NoDate
                   /\ IsoFormat(parsed) = SubSeq(value.text, 1, 10)
             /\ parsed # NoDate =>
                   /\ parsed \in Nat \X (1..12) \X (1..31)
                   /\ IsDate(parsed[1], parsed[2], parsed[3])
                   /\ ParseDateField(StrValue(IsoFormat(parsed))) = parsed

\* C19 witness: an epic whose start field is the timestamp string of
\* February 29, 2024 has that start date, and its end field "2023-02-29"
\* gives no end date.
C19_Witness ==
    ResultComputed /\ \E v, w \in ParsedFields :
        /\ v = <<TimestampValue(Date(2024, 2, 29)), Date(2024, 2, 29)>>
        /\ w[1] = StrValue(IsoFormat(<<2023, 2, 29>>))
        /\ w[2] = NoDate

\* C20 as stated: the RoadmapResult type accepts initiative_deps, epic_deps
\* and project_names besides its other five fields, so that constructing
\* the result does not fail with a TypeError, and the result returned
\* carries the initiatives, the timeline bounds and both lists of
\* dependency edges as computed.
C20_ResultCarriesDependencies ==
    /\ error # "TypeError"
    /\ pc = "done" =>
          /\ result # <<>>
          /\ result[1].initiatives = initiatives
          /\ result[1].timeline_start = timeline_start
          /\ result[1].timeline_end = timeline_end
          /\ result[1].initiative_deps = initiative_deps
          /\ result[1].epic_deps = epic_deps

\* the project keys of the initiatives and epics handed to the result
PrefixesInResult ==
    {initiatives[i].key.project : i \in DOMAIN initiatives}
    \cup UNION {{k.project : k \in Range(EpicKeysOf(initiatives[i]))}
                : i \in DOMAIN initiatives}

\* the lookup of the project key fails at the tracker
LookupFails(p) == p \notin DOMAIN jira_projects \/ jira_projects[p].error # ""

\* C21: when the project names are resolved, the mapping has one entry for
\* each project key of an initiative or epic handed to the result and no
\* other entry; a key whose lookup fails is mapped to itself, any other key
\* to the name the tracker gives, and no lookup failure ends fetch_roadmap.
C21_ProjectNamesFallBack ==
    /\ error # "JIRAError"
    /\ ResultComputed =>
          /\ DOMAIN project_names = PrefixesInResult
          /\ \A p \in DOMAIN project_names :
                /\ LookupFails(p) => project_names[p] = p
                /\ ~LookupFails(p) => project_names[p] = jira_projects[p].name

\* C21 witness: the result has epics of two projects besides the
\* initiatives' project; the lookup of one epic project fails and it is
\* mapped to its own key, the other two are mapped to their names.
C21_Witness ==
    /\ ResultComputed
    /\ PrefixesInResult = {"INIT", "EPIC", "OPS"}
    /\ LookupFails("OPS") /\ ~LookupFails("EPIC") /\ ~LookupFails("INIT")
    /\ project_names = [p \in {"INIT", "EPIC", "OPS"} |->
                           CASE p = "INIT" -> "Initiatives"
                             [] p = "EPIC" -> "Epics"
                             [] p = "OPS"  -> "OPS"]

\* the configuration lacks the date field: it is None or the empty string
Lacks(field) == field.null \/ field.text = <<>>

\* the run stopped at the configuration with the named error, or has not
\* yet looked at it, and no client method was called
StoppedAtConfig(name) ==
    /\ pc \in {"load_config", "raised"}
    /\ pc = "raised" => error = name
    /\ calls = <<>>
    /\ result = <<>>

DatesCarriedBy(init) ==
    Cardinality({f \in {"start_date", "end_date"} : init[f] # NoDate})
    + Cardinality({<<j, f>> \in (DOMAIN init.epics) \X {"start_date", "end_date"} :
                      init.epics[j][f] # NoDate})

\* the number of dates the first n initiatives carry
RECURSIVE DatesCarriedByFirst(_)
DatesCarriedByFirst(n) ==
    IF n = 0 THEN 0 ELSE DatesCarriedByFirst(n - 1) + DatesCarriedBy(initiatives[n])

\* the initiative discovers no epic, or the bulk epic query returned the
\* record of none of the epics it discovers
NoEpicBuilt(issue) == \A k \in ScenarioKeys : Discovers(issue, k) => ~Fetched(k)

\* C23: an initiative that discovers no epic, or none whose record the bulk
\* epic query returned, is handed to the result with an empty epic list and
\* without start and end date, and adds nothing to the pool of dates: the
\* pool has as many entries as the initiatives and their epics carry dates,
\* and is empty when no initiative has an epic built.
C23_NoEpicsNoDates ==
    ResultComputed =>
        /\ Len(initiatives) = Len(raw_initiatives)
        /\ \A i \in DOMAIN initiatives :
              NoEpicBuilt(raw_initiatives[i]) =>
                  /\ initiatives[i].epics = <<>>
                  /\ initiatives[i].start_date = NoDate
                  /\ initiatives[i].end_date = NoDate
                  /\ DatesCarriedBy(initiatives[i]) = 0
        /\ Len(all_dates) = DatesCarriedByFirst(Len(initiatives))
        /\ (\A i \in DOMAIN raw_initiatives : NoEpicBuilt(raw_initiatives[i]))
             => all_dates = <<>>

\* C23 witness: the first initiative discovers an epic whose record did not
\* come back, the second one an epic with a start date; the first has no
\* epic and no dates, and the pool holds the dates of the second alone.
C23_Witness ==
    /\ ResultComputed
    /\ Len(initiatives) = 2
    /\ \E k \in ScenarioKeys : Discovers(raw_initiatives[1], k)
    /\ NoEpicBuilt(raw_initiatives[1])
    /\ initiatives[1].epics = <<>>
    /\ initiatives[1].start_date = NoDate /\ initiatives[1].end_date = NoDate
    /\ initiatives[2].epics # <<>>
    /\ initiatives[2].start_date # NoDate
    /\ all_dates # <<>>
    /\ Len(all_dates) = DatesCarriedBy(initiatives[2])

\* the keys of the targets of type Epic a link names, inward before outward
EpicTargets(link) ==
    LET named == SelectSeq(link.inwardIssue \o link.outwardIssue,
                           LAMBDA t : t.issuetype = "Epic" /\ t.key # EmptyKey)
    IN [j \in DOMAIN named |-> named[j].key]

\* the epic keys the links outside no allow-list name, in link order
RECURSIVE DiscoveredByLinks(_)
DiscoveredByLinks(links) ==
    IF links = <<>> THEN <<>>
    ELSE (IF OutsideAllowList(Head(links), link_types) THEN <<>>
          ELSE EpicTargets(Head(links)))
         \o DiscoveredByLinks(Tail(links))

\* seq followed by the keys of more that are not yet in it, in their order
RECURSIVE FollowedByNew(_, _)
FollowedByNew(seq, more) ==
    IF more = <<>> THEN seq
    ELSE FollowedByNew(IF Head(more) \in Range(seq) THEN seq ELSE Append(seq, Head(more)),
                       Tail(more))

\* the keys of the subtask entries of type Epic, and of the parent-field
\* results whose parent is the issue
SubtaskEpicKeys(issue) ==
    LET subs == SelectSeq(issue.subtasks,
                          LAMBDA t : t.issuetype = "Epic" /\ t.key # EmptyKey)
    IN [j \in DOMAIN subs |-> subs[j].key]

ParentFieldKeys(issue) ==
    LET children == SelectSeq(IF Failed(jira_parent) THEN <<>> ELSE jira_parent.issues,
                              LAMBDA c : c.parent = issue.key)
    IN [j \in DOMAIN children |-> children[j].key]

\* the discovered epic keys of an initiative: issue links in link order,
\* then subtasks, then parent-field results
Discovered(issue) ==
    FollowedByNew(FollowedByNew(DiscoveredByLinks(issue.issuelinks),
                                SubtaskEpicKeys(issue)),
                  ParentFieldKeys(issue))

\* C24: the epic list of every initiative handed to the result is the
\* sequence of its discovered epic keys (issue links in link order, then
\* subtasks, then parent-field results) with the keys left out for which the
\* bulk epic query returned no record, in the same order; building the
\* initiatives raises nothing when a record is missing.
C24_EpicListIsFetchedDiscovered ==
    /\ error \notin {"KeyError", "AttributeError", "ValueError"}
    /\ ResultComputed =>
          /\ Len(initiatives) = Len(raw_initiatives)
          /\ \A i \in DOMAIN initiatives :
                /\ initiative_epic_links[raw_initiatives[i].key]
                     = Discovered(raw_initiatives[i])
                /\ EpicKeysOf(initiatives[i])
                     = SelectSeq(Discovered(raw_initiatives[i]), Fetched)

\* C24 witness: the first initiative discovers EPIC-2 by a link and EPIC-1
\* by the parent field, only the record of EPIC-2 came back, and its epic
\* list is EPIC-2 alone.
C24_Witness ==
    /\ ResultComputed
    /\ ReachedByAllowedLink(raw_initiatives[1], E2, link_types)
    /\ ReachedByParentField(raw_initiatives[1], E1)
    /\ Discovered(raw_initiatives[1]) = <<E2, E1>>
    /\ Fetched(E2) /\ ~Fetched(E1)
    /\ EpicKeysOf(initiatives[1]) = <<E2>>

\* the JiraClient calls of fetch_roadmap in the order of its source lines
CallOrder ==
    <<"search_initiatives", "search_parent_epics", "search_epics", "search_stories",
      "get_project_names">>

PlaceInOrder(method) == CHOOSE n \in DOMAIN CallOrder : CallOrder[n] = method

\* C25: the client calls of one run are issued in the order primary search,
\* parent-field query, bulk epic query, child-item query, project-name
\* resolution, none of them twice, also when a query failed; a run that
\* reaches the result has issued the primary search, the parent-field query
\* and the project-name resolution, and the two epic-key queries when an epic
\* key was discovered; after a primary search that failed or found nothing
\* no other call is issued.
C25_CallsInOrderOnce ==
    /\ \A n \in DOMAIN calls : calls[n] \in Range(CallOrder)
    /\ \A m, n \in DOMAIN calls :
          m < n => PlaceInOrder(calls[m]) < PlaceInOrder(calls[n])
    /\ ResultComputed =>
          calls = SelectSeq(CallOrder,
                            LAMBDA c : c \in {"search_epics", "search_stories"}
                                         => epic_keys_set # {})
    /\ (Failed(jira_primary) \/ jira_primary.issues = <<>>)
          => calls \in {<<>>, <<"search_initiatives">>}

\* C25 witness: the bulk epic query failed, and the run has reached the
\* result with each of the five calls issued once, in order.
C25_Witness ==
    /\ ResultComputed
    /\ Failed(jira_epics)
    /\ epic_keys_set # {}
    /\ calls = CallOrder

\* C26 as stated: no pair (from, to) is both an initiative dependency edge
\* and an epic dependency edge, also when an issue of the primary result is
\* discovered as an epic of another issue of the primary result.
C26_EdgeSetsDisjoint ==
    ResultComputed => Range(initiative_deps) \cap Range(epic_deps) = {}

\* C27 as stated: for every epic dependency edge (from, to), to is a
\* discovered epic key other than from, and from is the key of a record the
\* bulk epic query returned and is itself a discovered epic key, whatever
\* records the query returns.
C27_EpicEdgesWithinDiscovered ==
    ResultComputed =>
        \A n \in DOMAIN epic_deps :
            LET from == epic_deps[n][1]
                to == epic_deps[n][2]
            IN /\ to \in epic_keys_set
               /\ to # from
               /\ Fetched(from)
               /\ from \in epic_keys_set

\* the pairs (issue, target) of the outward links of the issue whose target
\* is another issue of the primary result, in link order
OutwardPairs(issue, raw) ==
    LET to_others == SelectSeq(issue.issuelinks,
                        LAMBDA link : /\ link.outwardIssue # <<>>
                                      /\ link.outwardIssue[1].key # issue.key
                                      /\ \E n \in DOMAIN raw :
                                            raw[n].key = link.outwardIssue[1].key)
    IN [j \in DOMAIN to_others |-> <<issue.key, to_others[j].outwardIssue[1].key>>]

\* those pairs of the first n issues, in issue order
RECURSIVE OutwardPairsOfFirst(_, _)
OutwardPairsOfFirst(n, raw) ==
    IF n = 0 THEN <<>>
    ELSE OutwardPairsOfFirst(n - 1, raw) \o OutwardPairs(raw[n], raw)

\* C28: initiative_deps is determined by the raw initiatives alone: it is
\* the list of the pairs their outward links name, each once, whether the
\* allow-list is absent, empty or a list of names, and also for a link whose
\* type name the allow-list lacks.
C28_AllowListLeavesInitiativeDeps ==
    raw_initiatives # <<>> =>
        initiative_deps
          = FollowedByNew(<<>>, OutwardPairsOfFirst(Len(raw_initiatives), raw_initiatives))

\* C28 witness: the allow-list is ["Relates"]; the first initiative has a
\* "Blocks" link to the second initiative and a "Blocks" link to an epic;
\* the epic is not discovered, and the edge between the initiatives is
\* there.
C28_Witness ==
    /\ ResultComputed
    /\ link_types = LinkTypes(<<"Relates">>)
    /\ Outward("Blocks", I2, "Initiative") \in Range(raw_initiatives[1].issuelinks)
    /\ Outward("Blocks", E1, "Epic") \in Range(raw_initiatives[1].issuelinks)
    /\ E1 \notin epic_keys_set
    /\ initiative_deps = << <<I1, I2>> >>

\* the epic keys the links name when none is skipped, in link order
RECURSIVE NamedByLinks(_)
NamedByLinks(links) ==
    IF links = <<>> THEN <<>> ELSE EpicTargets(Head(links)) \o NamedByLinks(Tail(links))

\* the position of the initiative's first epic key that no link names, or
\* one past the end of the list
LinkPartEnd(issue) == Len(NamedByLinks(issue.issuelinks))

\* C30: with link_types = [] as with link_types = None, no link is skipped:
\* the epic key list of every initiative begins with the key of every
\* target of type Epic of every link, in link order, and each such key is
\* in the global epic key set.
C30_EmptyAllowListIsAbsent ==
    (raw_initiatives # <<>> /\ (link_types.none \/ link_types.names = <<>>)) =>
        \A i \in DOMAIN raw_initiatives :
            LET issue == raw_initiatives[i]
                keys == initiative_epic_links[issue.key]
            IN /\ Len(keys) >= LinkPartEnd(issue)
               /\ SubSeq(keys, 1, LinkPartEnd(issue)) = NamedByLinks(issue.issuelinks)
               /\ Range(NamedByLinks(issue.issuelinks)) \subseteq epic_keys_set

\* C30 witness: the allow-list is the empty list, the first initiative has
\* a "Blocks" and a "Relates" link to epics, and both epics are in its epic
\* list.
C30_Witness ==
    /\ ResultComputed
    /\ link_types = LinkTypes(<<>>)
    /\ \E j, k \in DOMAIN raw_initiatives[1].issuelinks :
          /\ raw_initiatives[1].issuelinks[j].type = "Blocks"
          /\ EpicTargets(raw_initiatives[1].issuelinks[j]) # <<>>
          /\ raw_initiatives[1].issuelinks[k].type = "Relates"
          /\ EpicTargets(raw_initiatives[1].issuelinks[k]) # <<>>
    /\ initiative_epic_links[I1] = NamedByLinks(raw_initiatives[1].issuelinks)
    /\ Fetched(E1) => E1 \in Range(EpicKeysOf(initiatives[1]))

\* C29: whenever the timeline bounds are computed, they are calendar dates,
\* timeline_start is earlier than timeline_end, and every date an epic or
\* an initiative handed to the result carries lies strictly between them.
C29_DatesInsideTimeline ==
    ResultComputed =>
        /\ IsDate(timeline_start[1], timeline_start[2], timeline_start[3])
        /\ IsDate(timeline_end[1], timeline_end[2], timeline_end[3])
        /\ DateLT(timeline_start, timeline_end)
        /\ \A d \in CarriedDates : DateLT(timeline_start, d) /\ DateLT(d, timeline_end)

\* C29 witness: the earliest carried date is the first day of a month and
\* the latest the last day of a December past the nine months; the bounds
\* are the first day of the month before and January 1 of the year after.
C29_Witness ==
    /\ ResultComputed
    /\ CarriedDates # {}
    /\ Earliest(all_dates)[3] = 1
    /\ Earliest(all_dates) \in CarriedDates
    /\ timeline_start = FirstOfMonth(MonthIndex(Earliest(all_dates)) - 1)
    /\ Latest(all_dates)[2] = 12 /\ Latest(all_dates)[3] = 31
    /\ DateLT(NineMonthsOut(today), Latest(all_dates))
    /\ timeline_end = Date(Latest(all_dates)[1] + 1, 1, 1)

====
